---- MODULE Spec2Model ----
(***************************************************************************)
(* Verification model of the tick transfer layer of fix-feed-simulator:    *)
(*   - LockFreeRingBuffer  (include/core/nonblocking_ring_buffer.h)        *)
(*   - BlockingRingBuffer  (core/blocking_ring_buffer.h)                   *)
(* Each queue is modelled as a state machine whose steps are the shared    *)
(* memory accesses of its member functions, in program order.  The atomic  *)
(* cursor loads and stores are single steps; the release store / acquire   *)
(* load pairs of the code order the slot accesses around them, so a slot   *)
(* copy is a sequence of plain steps, one per member of the element, that  *)
(* interleaves freely with the other thread.                               *)
(***************************************************************************)
EXTENDS Integers, Naturals, Sequences, FiniteSets, TLC

(***************************************************************************)
(* Bounds of the model.                                                    *)
(***************************************************************************)
\* width in bits of size_t in the model (cursors and counters wrap mod 2^SizeBits)
SizeBits == 2
\* the lock-free queue has Capacity = 2^LogCapacity (has_single_bit(Capacity))
LogCapacity == 1
\* number of push calls, and of pop calls, a thread makes on the lock-free queue
MaxAttempts == 6
\* number of separately copied members of the element type T
NumFields == 2
\* Capacity of the blocking queue (any positive size)
BQCapacity == 3
\* width in bits of the blocking queue's size_t count_ in the model
CountBits == 3
\* number of push calls, and of pop calls, a thread makes on the blocking queue
MaxOps == 4
\* number of stop() calls
MaxStops == 2
\* number of items of a spin-retry run (ITERATIONS of run_nonblocking)
RunItems == 4
\* number of addField calls on one FIXMessage body
MaxFields == 2
\* the orchestrators' tick queue has Capacity = 2^TickLogCapacity (4096 in the source)
TickLogCapacity == 0
\* number of ticks the producer task generates
MaxTicks == 2
\* largest captured length (caplen) of a frame handed to handlePacket
MaxCaplen == 83
\* number of frames handed to handlePacket
MaxFrames == 2
\* largest magnitude of a start price and of a step size (in price units)
MaxPrice == 3
\* number of getNextPrice calls on one generator
MaxCalls == 3

(***************************************************************************)
(* size_t arithmetic and the element type.                                 *)
(***************************************************************************)
SizeMod == 2 ^ SizeBits

\* unsigned arithmetic on size_t: results are taken modulo 2^SizeBits
Wrap(x) == x % SizeMod

\* unsigned arithmetic on the blocking queue's count_: modulo 2^CountBits
WrapCount(x) == x % (2 ^ CountBits)

RECURSIVE BitAnd(_, _)
\* the & operator on unsigned integers
BitAnd(a, b) ==
    IF a = 0 \/ b = 0
    THEN 0
    ELSE (a % 2) * (b % 2) + 2 * BitAnd(a \div 2, b \div 2)

Fields == 1 .. NumFields

\* an element of type T carrying tag v in every member; T{} carries 0
Item(v) == [f \in Fields |-> v]

Tag(it) == it[1]

\* an item all of whose members come from one and the same Item(v)
Untorn(it) == \A f \in Fields : it[f] = it[1]

(***************************************************************************)
(* LockFreeRingBuffer<T, Capacity>                                         *)
(***************************************************************************)
Capacity == 2 ^ LogCapacity

VARIABLES
    lf_writeIndex_,   \* std::atomic<size_t> writeIndex_
    lf_readIndex_,    \* std::atomic<size_t> readIndex_
    lf_buffer_,       \* std::array<T, Capacity> buffer_
    ppc,              \* producer thread: position inside push ("idle" = not in a call)
    pItem,            \* push: the argument item
    pCurrentWrite,    \* push: local currentWrite
    pCurrentRead,     \* push: local currentRead
    pField,           \* push: next member of the item to copy into the slot
    pResult,          \* result of the last completed push: "true", "false", or "none" before
    cpc,              \* consumer thread: position inside pop
    cCurrentRead,     \* pop: local currentRead
    cCurrentWrite,    \* pop: local currentWrite
    cField,           \* pop: next member of the slot to copy out
    cValue,           \* pop: the caller's variable bound to T &value
    cResult,          \* result of the last completed pop: "true", "false", or "none" before
    \* history (observation only, never read by the queue's code)
    accepted,         \* tags of the items of the pushes that returned true, in order
    returned,         \* items handed out by the pops that returned true, in order
    pushCalls,        \* number of push calls started
    pushFalse,        \* number of push calls that returned false
    popCalls,         \* number of pop calls started
    popFalse,         \* number of pop calls that returned false
    pSteps,           \* steps taken by the push call in flight (or by the last one)
    cSteps            \* steps taken by the pop call in flight (or by the last one)

lfShared == <<lf_writeIndex_, lf_readIndex_, lf_buffer_>>
lfProducer == <<ppc, pItem, pCurrentWrite, pCurrentRead, pField, pResult>>
lfConsumer == <<cpc, cCurrentRead, cCurrentWrite, cField, cValue, cResult>>
lfProducerHist == <<accepted, pushCalls, pushFalse, pSteps>>
lfConsumerHist == <<returned, popCalls, popFalse, cSteps>>
lfVars == <<lfShared, lfProducer, lfConsumer, lfProducerHist, lfConsumerHist>>

\* a thread that calls LockFreeRingBuffer::size() on the same queue
VARIABLES
    size_pc,          \* position inside size
    size_head,        \* size: local head
    size_result       \* the value the last size() call returned

sizeVars == <<size_pc, size_head, size_result>>

\* state of the BlockingRingBuffer and of its three threads
VARIABLES
    bq_buffer_,       \* std::array<T, Capacity> buffer_ (0: never written, indeterminate)
    bq_writeIndex_,   \* size_t writeIndex_
    bq_readIndex_,    \* size_t readIndex_
    bq_count_,        \* size_t count_
    mtx_,             \* std::mutex mtx_: the thread that owns it, or "none"
    notFullCv_,       \* threads blocked in notFullCv_.wait
    notEmptyCv_,      \* threads blocked in notEmptyCv_.wait
    stopped_,         \* bool stopped_
    bpc,              \* producer thread: position inside push
    bItem,            \* push: the argument item (its tag)
    bWaited,          \* history: the push call in flight has blocked in notFullCv_.wait
    bcpc,             \* consumer thread: position inside pop
    bOut,             \* pop: the caller's variable bound to T &item
    bcWaited,         \* history: the pop call in flight has blocked in notEmptyCv_.wait
    spc,              \* stopper thread: position inside stop
    \* history (observation only)
    bqPushed,         \* tags written by push, in order
    bqPopped,         \* values copied out by pop, in order
    bPushCalls,       \* push calls started
    bPushDone,        \* push calls that returned
    bPopCalls,        \* pop calls started
    bPopDone,         \* pop calls that returned
    stopCalls,        \* stop calls started
    stopsDone         \* stop calls that returned

bqShared == <<bq_buffer_, bq_writeIndex_, bq_readIndex_, bq_count_>>
bqSync == <<mtx_, notFullCv_, notEmptyCv_, stopped_>>
bqProducer == <<bpc, bItem, bWaited, bqPushed, bPushCalls, bPushDone>>
bqConsumer == <<bcpc, bOut, bcWaited, bqPopped, bPopCalls, bPopDone>>
bqStopper == <<spc, stopCalls, stopsDone>>
bqVars == <<bqShared, bqSync, bqProducer, bqConsumer, bqStopper>>

\* state of one FIXMessage (bytes are numbers 0 .. 255)
VARIABLES
    fix_bodyBuffer_,          \* std::vector<uint8_t> bodyBuffer_
    fix_finalMessageBuffer_,  \* std::vector<uint8_t> finalMessageBuffer_
    \* history (observation only)
    fix_fields,               \* the addField calls since the body was last empty
    fix_lastOp,               \* the member function that returned last
    fix_overwrote             \* the last finalize replaced an earlier, different message

fixVars == <<fix_bodyBuffer_, fix_finalMessageBuffer_, fix_fields, fix_lastOp, fix_overwrote>>

\* state of one producer process: main thread, orchestrator, its three tasks
VARIABLES
    mds_kind,          \* the orchestrator class that main constructed, or "none"
    sender_,           \* std::unique_ptr<UDPMulticastSender> sender_: "unset", "ok", "null"
    running_,          \* std::atomic<bool> running_
    keepRunning,       \* main's std::atomic<bool> keepRunning / running
    CVMonitor_,        \* threads blocked in CVMonitor_.wait_for
    signal,            \* "raised" once a signal was delivered to the process, else "none"
    alive,             \* FALSE once the process was killed or std::terminate ran
    mds_pc,            \* position of each thread ("main", "producer", "consumer", "monitor")
    tick,              \* consumerThread: MarketTick tick ("none": never assigned)
    sent,              \* consumerThread: bool sent
    ticksGenerated_,   \* std::atomic<uint64_t> ticksGenerated_
    ticksSent_,        \* std::atomic<uint64_t> ticksSent_
    \* SPSCTickQueue_ of the blocking orchestrators (BlockingRingBuffer)
    tq_buffer_,
    tq_writeIndex_,
    tq_readIndex_,
    tq_count_,
    tq_notFullCv_,     \* threads blocked in notFullCv_.wait
    tq_notEmptyCv_,    \* threads blocked in notEmptyCv_.wait
    \* SPSCTickQueue_ of the lock-free orchestrators (LockFreeRingBuffer)
    lq_buffer_,
    lq_writeIndex_,
    lq_readIndex_,
    \* history (observation only)
    pushers,           \* threads that have called push on SPSCTickQueue_
    poppers,           \* threads that have called pop on SPSCTickQueue_
    encoded,           \* kinds of tick that consumerThread has encoded
    made,              \* number of ticks producerThread has generated
    unsent             \* TRUE while the current message was refused and not yet sent

\* consumerThread's last call of UDPMulticastSender::send
VARIABLES
    sendto             \* what ::sendto handed back, "none" outside the call

\* history of the metrics counters (observation only)
VARIABLES
    genTotal,          \* fetch_add calls performed on ticksGenerated_
    genReported,       \* sum of the genCount values the monitor has reported
    sentTotal,         \* fetch_add calls performed on ticksSent_
    sentReported,      \* sum of the sentCount values the monitor has reported
    sendsReturned      \* calls of sender_->send that returned (kept by ConsumerSendCounted)

genMetrics == <<genTotal, genReported>>
sentMetrics == <<sentTotal, sentReported, sendsReturned>>

mdsCtl == <<mds_kind, sender_, running_, keepRunning, CVMonitor_, signal, alive>>
mdsLocals == <<tick, sent, sendto>>
mdsCounters == <<ticksGenerated_, ticksSent_, genMetrics, sentMetrics>>
mdsTq == <<tq_buffer_, tq_writeIndex_, tq_readIndex_, tq_count_, tq_notFullCv_, tq_notEmptyCv_>>
mdsLq == <<lq_buffer_, lq_writeIndex_, lq_readIndex_>>
mdsHist == <<pushers, poppers, encoded, made, unsent>>
mdsVars == <<mdsCtl, mds_pc, mdsLocals, mdsCounters, mdsTq, mdsLq, mdsHist>>

\* PacketCapturer (part_006)
VARIABLES
    userCallback_,     \* "empty" or "set": the std::function startCapture stored
    pcap_caplen,       \* header->caplen of the frame handled last
    pcap_byte,         \* the byte handlePacket read at packetData + 14
    pcap_call,         \* <<offset of payload from packetData, payloadSize>> that the
                       \* callback got for the frame handled last, or <<>>
    pcap_frames,       \* frames handled
    pcap_dropped       \* frames handled without a call of the callback (history)

pcapVars == <<userCallback_, pcap_caplen, pcap_byte, pcap_call, pcap_frames, pcap_dropped>>

\* RandomWalkGenerator<PriceType> (random_walk_generator.h)
VARIABLES
    rw_state,          \* "new" before the constructor, then "ready"
    currentPrice_,
    stepSize_,
    rw_before,         \* currentPrice_ when the last getNextPrice was called
    rw_returned,       \* sequence of the prices getNextPrice has returned
    rw_calls           \* getNextPrice calls made

rwVars == <<rw_state, currentPrice_, stepSize_, rw_before, rw_returned, rw_calls>>

\* the components that are neither queue, message nor producer process
toolVars == <<pcapVars, rwVars>>

\* what the lock-free queue's operations leave alone
outsideLF == <<sizeVars, bqVars, fixVars, mdsVars, toolVars>>

\* what the blocking queue's operations leave alone
outsideBQ == <<lfVars, sizeVars, fixVars, mdsVars, toolVars>>

\* what the FIXMessage's operations leave alone
outsideFIX == <<lfVars, sizeVars, bqVars, mdsVars, toolVars>>

\* what the producer process leaves alone
outsideMDS == <<lfVars, sizeVars, bqVars, fixVars, toolVars>>

\* what the packet capturer leaves alone
outsidePcap == <<lfVars, sizeVars, bqVars, fixVars, mdsVars, rwVars>>

\* what the price generator leaves alone
outsideRW == <<lfVars, sizeVars, bqVars, fixVars, mdsVars, pcapVars>>

vars == <<lfVars, sizeVars, bqVars, fixVars, mdsVars, toolVars>>

\* slot index of a cursor: cursor & (Capacity - 1)
SlotOf(cursor) == BitAnd(cursor, Capacity - 1)

\* IsFull with the operands of the subtraction exchanged
IsFullSwapped(nextWrite, currentRead) == Wrap(currentRead - nextWrite) > Capacity

\* IsFull with the bound off by one upwards (tests currentWrite - currentRead)
IsFullLate(nextWrite, currentRead) == Wrap(nextWrite - currentRead) > Capacity + 1

\* IsFull with >= in place of >
IsFullEarly(nextWrite, currentRead) == Wrap(nextWrite - currentRead) >= Capacity

\* IsFull computed in unbounded integers, without the wrap of size_t
IsFullNoWrap(nextWrite, currentRead) == nextWrite - currentRead > Capacity

\* push's test "nextWrite - currentRead > Capacity"
IsFull(nextWrite, currentRead) == Wrap(nextWrite - currentRead) > Capacity

\* IsEmpty written with > in place of ==
IsEmptyGreater(currentRead, currentWrite) == currentRead > currentWrite

\* pop's test "currentRead == currentWrite"
IsEmpty(currentRead, currentWrite) == currentRead = currentWrite

\* LockFreeRingBuffer(): both cursors 0; buffer_ is not initialised by the
\* constructor, and tag 0 marks a slot that no push has written yet
InitLF ==
    /\ lf_writeIndex_ = 0
    /\ lf_readIndex_ = 0
    /\ lf_buffer_ = [s \in 0 .. Capacity - 1 |-> Item(0)]
    /\ ppc = "idle"
    /\ pItem = Item(0)
    /\ pCurrentWrite = 0
    /\ pCurrentRead = 0
    /\ pField = 1
    /\ pResult = "none"
    /\ cpc = "idle"
    /\ cCurrentRead = 0
    /\ cCurrentWrite = 0
    /\ cField = 1
    /\ cValue = Item(0)
    /\ cResult = "none"
    /\ accepted = <<>>
    /\ returned = <<>>
    /\ pushCalls = 0
    /\ pushFalse = 0
    /\ popCalls = 0
    /\ popFalse = 0
    /\ pSteps = 0
    /\ cSteps = 0
    /\ size_pc = "idle"
    /\ size_head = 0
    /\ size_result = 0

\* push, line 34-35: the call starts; currentWrite = writeIndex_.load(relaxed)
PushLoadWrite ==
    /\ ppc = "idle"
    /\ pushCalls < MaxAttempts
    /\ pushCalls' = pushCalls + 1
    /\ pItem' = Item(pushCalls + 1)
    /\ pCurrentWrite' = lf_writeIndex_
    /\ ppc' = "loadRead"
    /\ pSteps' = 1
    /\ UNCHANGED <<lfShared, pCurrentRead, pField, pResult, accepted, pushFalse>>
    /\ UNCHANGED <<lfConsumer, lfConsumerHist>>
    /\ UNCHANGED outsideLF

\* PushLoadRead that waits for room instead of returning false
PushLoadReadWait ==
    /\ ppc = "loadRead"
    /\ ~IsFull(Wrap(pCurrentWrite + 1), lf_readIndex_)
    /\ pCurrentRead' = lf_readIndex_
    /\ pSteps' = pSteps + 1
    /\ ppc' = "copy"
    /\ pField' = 1
    /\ UNCHANGED <<pResult, pushFalse>>
    /\ UNCHANGED <<lfShared, pItem, pCurrentWrite, accepted, pushCalls>>
    /\ UNCHANGED <<lfConsumer, lfConsumerHist>>
    /\ UNCHANGED outsideLF

\* push, line 36-43: currentRead = readIndex_.load(acquire); return false when full
PushLoadRead ==
    /\ ppc = "loadRead"
    /\ pCurrentRead' = lf_readIndex_
    /\ pSteps' = pSteps + 1
    /\ IF IsFull(Wrap(pCurrentWrite + 1), lf_readIndex_)
       THEN /\ ppc' = "idle"
            /\ pResult' = "false"
            /\ pushFalse' = pushFalse + 1
            /\ UNCHANGED pField
       ELSE /\ ppc' = "copy"
            /\ pField' = 1
            /\ UNCHANGED <<pResult, pushFalse>>
    /\ UNCHANGED <<lfShared, pItem, pCurrentWrite, accepted, pushCalls>>
    /\ UNCHANGED <<lfConsumer, lfConsumerHist>>
    /\ UNCHANGED outsideLF

\* PushCopy with the write cursor published before the item is copied
PushCopyPublishFirst ==
    /\ ppc = "copy"
    /\ lf_buffer_' = [lf_buffer_ EXCEPT ![SlotOf(pCurrentWrite)][pField] = pItem[pField]]
    /\ lf_writeIndex_' = Wrap(pCurrentWrite + 1)
    /\ pSteps' = pSteps + 1
    /\ IF pField = NumFields
       THEN ppc' = "store" /\ pField' = 1
       ELSE ppc' = "copy" /\ pField' = pField + 1
    /\ UNCHANGED <<lf_readIndex_, pItem, pCurrentWrite, pCurrentRead, pResult>>
    /\ UNCHANGED <<accepted, pushCalls, pushFalse>>
    /\ UNCHANGED <<lfConsumer, lfConsumerHist>>
    /\ UNCHANGED outsideLF

\* push, line 46: buffer_[currentWrite & (Capacity - 1)] = item, one member per step
PushCopy ==
    /\ ppc = "copy"
    /\ lf_buffer_' = [lf_buffer_ EXCEPT ![SlotOf(pCurrentWrite)][pField] = pItem[pField]]
    /\ pSteps' = pSteps + 1
    /\ IF pField = NumFields
       THEN ppc' = "store" /\ pField' = 1
       ELSE ppc' = "copy" /\ pField' = pField + 1
    /\ UNCHANGED <<lf_writeIndex_, lf_readIndex_, pItem, pCurrentWrite, pCurrentRead, pResult>>
    /\ UNCHANGED <<accepted, pushCalls, pushFalse>>
    /\ UNCHANGED <<lfConsumer, lfConsumerHist>>
    /\ UNCHANGED outsideLF

\* PushStore that publishes currentWrite + 2
PushStoreSkip ==
    /\ ppc = "store"
    /\ lf_writeIndex_' = Wrap(pCurrentWrite + 2)
    /\ ppc' = "idle"
    /\ pResult' = "true"
    /\ accepted' = Append(accepted, Tag(pItem))
    /\ pSteps' = pSteps + 1
    /\ UNCHANGED <<lf_readIndex_, lf_buffer_, pItem, pCurrentWrite, pCurrentRead, pField>>
    /\ UNCHANGED <<pushCalls, pushFalse>>
    /\ UNCHANGED <<lfConsumer, lfConsumerHist>>
    /\ UNCHANGED outsideLF

\* push, line 47-49: writeIndex_.store(nextWrite, release); return true
PushStore ==
    /\ ppc = "store"
    /\ lf_writeIndex_' = Wrap(pCurrentWrite + 1)
    /\ ppc' = "idle"
    /\ pResult' = "true"
    /\ accepted' = Append(accepted, Tag(pItem))
    /\ pSteps' = pSteps + 1
    /\ UNCHANGED <<lf_readIndex_, lf_buffer_, pItem, pCurrentWrite, pCurrentRead, pField>>
    /\ UNCHANGED <<pushCalls, pushFalse>>
    /\ UNCHANGED <<lfConsumer, lfConsumerHist>>
    /\ UNCHANGED outsideLF

\* pop, line 54: the call starts; currentRead = readIndex_.load(relaxed)
PopLoadRead ==
    /\ cpc = "idle"
    /\ popCalls < MaxAttempts
    /\ popCalls' = popCalls + 1
    /\ cCurrentRead' = lf_readIndex_
    /\ cpc' = "loadWrite"
    /\ cSteps' = 1
    /\ UNCHANGED <<lfShared, cCurrentWrite, cField, cValue, cResult, returned, popFalse>>
    /\ UNCHANGED <<lfProducer, lfProducerHist>>
    /\ UNCHANGED outsideLF

\* PopLoadWrite that resets the caller's variable when the queue is empty
PopLoadWriteClobber ==
    /\ cpc = "loadWrite"
    /\ cCurrentWrite' = lf_writeIndex_
    /\ cSteps' = cSteps + 1
    /\ IF IsEmpty(cCurrentRead, lf_writeIndex_)
       THEN /\ cpc' = "idle"
            /\ cResult' = "false"
            /\ popFalse' = popFalse + 1
            /\ cValue' = Item(0)
            /\ UNCHANGED cField
       ELSE /\ cpc' = "copy"
            /\ cField' = 1
            /\ UNCHANGED <<cResult, popFalse, cValue>>
    /\ UNCHANGED <<lfShared, cCurrentRead, returned, popCalls>>
    /\ UNCHANGED <<lfProducer, lfProducerHist>>
    /\ UNCHANGED outsideLF

\* PopLoadWrite that tests against the write cursor it loaded in the call before
PopLoadWriteStale ==
    /\ cpc = "loadWrite"
    /\ cCurrentWrite' = lf_writeIndex_
    /\ cSteps' = cSteps + 1
    /\ IF IsEmpty(cCurrentRead, cCurrentWrite)
       THEN /\ cpc' = "idle"
            /\ cResult' = "false"
            /\ popFalse' = popFalse + 1
            /\ UNCHANGED cField
       ELSE /\ cpc' = "copy"
            /\ cField' = 1
            /\ UNCHANGED <<cResult, popFalse>>
    /\ UNCHANGED <<lfShared, cCurrentRead, cValue, returned, popCalls>>
    /\ UNCHANGED <<lfProducer, lfProducerHist>>
    /\ UNCHANGED outsideLF

\* pop, line 55-61: currentWrite = writeIndex_.load(acquire); return false when empty
PopLoadWrite ==
    /\ cpc = "loadWrite"
    /\ cCurrentWrite' = lf_writeIndex_
    /\ cSteps' = cSteps + 1
    /\ IF IsEmpty(cCurrentRead, lf_writeIndex_)
       THEN /\ cpc' = "idle"
            /\ cResult' = "false"
            /\ popFalse' = popFalse + 1
            /\ UNCHANGED cField
       ELSE /\ cpc' = "copy"
            /\ cField' = 1
            /\ UNCHANGED <<cResult, popFalse>>
    /\ UNCHANGED <<lfShared, cCurrentRead, cValue, returned, popCalls>>
    /\ UNCHANGED <<lfProducer, lfProducerHist>>
    /\ UNCHANGED outsideLF

\* pop, line 63: value = buffer_[currentRead & (Capacity - 1)], one member per step
PopCopy ==
    /\ cpc = "copy"
    /\ cValue' = [cValue EXCEPT ![cField] = lf_buffer_[SlotOf(cCurrentRead)][cField]]
    /\ cSteps' = cSteps + 1
    /\ IF cField = NumFields
       THEN cpc' = "store" /\ cField' = 1
       ELSE cpc' = "copy" /\ cField' = cField + 1
    /\ UNCHANGED <<lfShared, cCurrentRead, cCurrentWrite, cResult>>
    /\ UNCHANGED <<returned, popCalls, popFalse>>
    /\ UNCHANGED <<lfProducer, lfProducerHist>>
    /\ UNCHANGED outsideLF

\* pop, line 65-68: readIndex_.store(currentRead + 1, release); return true
PopStore ==
    /\ cpc = "store"
    /\ lf_readIndex_' = Wrap(cCurrentRead + 1)
    /\ cpc' = "idle"
    /\ cResult' = "true"
    /\ returned' = Append(returned, cValue)
    /\ cSteps' = cSteps + 1
    /\ UNCHANGED <<lf_writeIndex_, lf_buffer_, cCurrentRead, cCurrentWrite, cField, cValue>>
    /\ UNCHANGED <<popCalls, popFalse>>
    /\ UNCHANGED <<lfProducer, lfProducerHist>>
    /\ UNCHANGED outsideLF

\* run_nonblocking, line 102: "while (!q->push(item))" enters push for the
\* next item or again for the refused one; push, line 34-35
SpinPushLoadWrite ==
    /\ ppc = "idle"
    /\ Len(accepted) < RunItems
    /\ pItem' = Item(Len(accepted) + 1)
    /\ pCurrentWrite' = lf_writeIndex_
    /\ ppc' = "loadRead"
    /\ pSteps' = 1
    /\ UNCHANGED <<lfShared, pCurrentRead, pField, pResult>>
    /\ UNCHANGED <<accepted, pushCalls, pushFalse>>
    /\ UNCHANGED <<lfConsumer, lfConsumerHist>>
    /\ UNCHANGED outsideLF

\* push, line 36-43 inside the retry loop: a refused push goes round the loop
SpinPushLoadRead ==
    /\ ppc = "loadRead"
    /\ pCurrentRead' = lf_readIndex_
    /\ pSteps' = pSteps + 1
    /\ IF IsFull(Wrap(pCurrentWrite + 1), lf_readIndex_)
       THEN /\ ppc' = "idle"
            /\ pResult' = "false"
            /\ UNCHANGED pField
       ELSE /\ ppc' = "copy"
            /\ pField' = 1
            /\ UNCHANGED pResult
    /\ UNCHANGED <<lfShared, pItem, pCurrentWrite, accepted, pushCalls, pushFalse>>
    /\ UNCHANGED <<lfConsumer, lfConsumerHist>>
    /\ UNCHANGED outsideLF

\* run_nonblocking, line 92: "while (!q->pop(t))" enters pop; pop, line 54
SpinPopLoadRead ==
    /\ cpc = "idle"
    /\ Len(returned) < RunItems
    /\ cCurrentRead' = lf_readIndex_
    /\ cpc' = "loadWrite"
    /\ cSteps' = 1
    /\ UNCHANGED <<lfShared, cCurrentWrite, cField, cValue, cResult>>
    /\ UNCHANGED <<returned, popCalls, popFalse>>
    /\ UNCHANGED <<lfProducer, lfProducerHist>>
    /\ UNCHANGED outsideLF

\* pop, line 55-61 inside the retry loop: an empty pop goes round the loop
SpinPopLoadWrite ==
    /\ cpc = "loadWrite"
    /\ cCurrentWrite' = lf_writeIndex_
    /\ cSteps' = cSteps + 1
    /\ IF IsEmpty(cCurrentRead, lf_writeIndex_)
       THEN /\ cpc' = "idle"
            /\ cResult' = "false"
            /\ UNCHANGED cField
       ELSE /\ cpc' = "copy"
            /\ cField' = 1
            /\ UNCHANGED cResult
    /\ UNCHANGED <<lfShared, cCurrentRead, cValue, returned, popCalls, popFalse>>
    /\ UNCHANGED <<lfProducer, lfProducerHist>>
    /\ UNCHANGED outsideLF

\* the producer thread of run_nonblocking
SpinProducerStep == SpinPushLoadWrite \/ SpinPushLoadRead \/ PushCopy \/ PushStore

\* the consumer thread of run_nonblocking
SpinConsumerStep == SpinPopLoadRead \/ SpinPopLoadWrite \/ PopCopy \/ PopStore

\* size, line 73: head = readIndex_.load(acquire)
SizeLoadHead ==
    /\ size_pc = "idle"
    /\ size_head' = lf_readIndex_
    /\ size_pc' = "loadTail"
    /\ UNCHANGED <<size_result, lfVars, bqVars, fixVars, mdsVars, toolVars>>

\* size, line 74-76: tail = writeIndex_.load(acquire); return tail - head
SizeLoadTail ==
    /\ size_pc = "loadTail"
    /\ size_result' = Wrap(lf_writeIndex_ - size_head)
    /\ size_pc' = "idle"
    /\ UNCHANGED <<size_head, lfVars, bqVars, fixVars, mdsVars, toolVars>>

\* the single producer thread
ProducerStep == PushLoadWrite \/ PushLoadRead \/ PushCopy \/ PushStore

\* the single consumer thread
ConsumerStep == PopLoadRead \/ PopLoadWrite \/ PopCopy \/ PopStore

(***************************************************************************)
(* BlockingRingBuffer<T, Capacity>                                         *)
(* Threads: "producer" calls push, "consumer" calls pop, "stopper" calls   *)
(* stop.  A std::condition_variable is the set of threads blocked in its   *)
(* wait; a thread leaves the set when notified or by a spurious wake-up    *)
(* and must then reacquire mtx_ before it evaluates its predicate again.   *)
(***************************************************************************)
\* PushPredicate without the shutdown flag
PushPredicateNoStop == bq_count_ < BQCapacity

\* PushPredicate with <= in place of <
PushPredicateLoose == bq_count_ <= BQCapacity \/ stopped_

\* push's wait predicate: count_ < Capacity || stopped_
PushPredicate == bq_count_ < BQCapacity \/ stopped_

\* PopPredicate with >= in place of >
PopPredicateLoose == bq_count_ >= 0 \/ stopped_

\* pop's wait predicate: count_ > 0 || stopped_
PopPredicate == bq_count_ > 0 \/ stopped_

\* member initialisers of BlockingRingBuffer
InitBQ ==
    /\ bq_buffer_ = [s \in 0 .. BQCapacity - 1 |-> 0]
    /\ bq_writeIndex_ = 0
    /\ bq_readIndex_ = 0
    /\ bq_count_ = 0
    /\ mtx_ = "none"
    /\ notFullCv_ = {}
    /\ notEmptyCv_ = {}
    /\ stopped_ = FALSE
    /\ bpc = "idle"
    /\ bItem = 0
    /\ bWaited = FALSE
    /\ bcpc = "idle"
    /\ bOut = 0
    /\ bcWaited = FALSE
    /\ spc = "idle"
    /\ bqPushed = <<>>
    /\ bqPopped = <<>>
    /\ bPushCalls = 0
    /\ bPushDone = 0
    /\ bPopCalls = 0
    /\ bPopDone = 0
    /\ stopCalls = 0
    /\ stopsDone = 0

\* the producer thread calls push(item)
BPushCall ==
    /\ bpc = "idle"
    /\ bPushCalls < MaxOps
    /\ bPushCalls' = bPushCalls + 1
    /\ bItem' = bPushCalls + 1
    /\ bWaited' = FALSE
    /\ bpc' = "lock"
    /\ UNCHANGED <<bqShared, bqSync, bqPushed, bPushDone, bqConsumer, bqStopper>>
    /\ UNCHANGED outsideBQ

\* push, line 37: std::unique_lock lock(mtx_)
BPushLock ==
    /\ bpc = "lock"
    /\ mtx_ = "none"
    /\ mtx_' = "producer"
    /\ bpc' = "check"
    /\ UNCHANGED <<bqShared, notFullCv_, notEmptyCv_, stopped_>>
    /\ UNCHANGED <<bItem, bWaited, bqPushed, bPushCalls, bPushDone, bqConsumer, bqStopper>>
    /\ UNCHANGED outsideBQ

\* push, line 40-41: notFullCv_.wait(lock, pred): with the lock held, go on when
\* the predicate holds, else release the lock and block, atomically
BPushCheck ==
    /\ bpc = "check"
    /\ IF PushPredicate
       THEN /\ bpc' = "write"
            /\ UNCHANGED <<mtx_, notFullCv_, bWaited>>
       ELSE /\ bpc' = "wait"
            /\ mtx_' = "none"
            /\ notFullCv_' = notFullCv_ \cup {"producer"}
            /\ bWaited' = TRUE
    /\ UNCHANGED <<bqShared, notEmptyCv_, stopped_>>
    /\ UNCHANGED <<bItem, bqPushed, bPushCalls, bPushDone, bqConsumer, bqStopper>>
    /\ UNCHANGED outsideBQ

\* push, line 40-41: the wait returns (notified or woken spuriously) by
\* reacquiring the lock, and the predicate is evaluated again
BPushRelock ==
    /\ bpc = "wait"
    /\ "producer" \notin notFullCv_
    /\ mtx_ = "none"
    /\ mtx_' = "producer"
    /\ bpc' = "check"
    /\ UNCHANGED <<bqShared, notFullCv_, notEmptyCv_, stopped_>>
    /\ UNCHANGED <<bItem, bWaited, bqPushed, bPushCalls, bPushDone, bqConsumer, bqStopper>>
    /\ UNCHANGED outsideBQ

\* push, line 46-53: write the slot, advance writeIndex_, count_++, unlock
BPushWrite ==
    /\ bpc = "write"
    /\ bq_buffer_' = [bq_buffer_ EXCEPT ![bq_writeIndex_] = bItem]
    /\ bq_writeIndex_' = (bq_writeIndex_ + 1) % BQCapacity
    /\ bq_count_' = WrapCount(bq_count_ + 1)
    /\ mtx_' = "none"
    /\ bqPushed' = Append(bqPushed, bItem)
    /\ bpc' = "notify"
    /\ UNCHANGED <<bq_readIndex_, notFullCv_, notEmptyCv_, stopped_>>
    /\ UNCHANGED <<bItem, bWaited, bPushCalls, bPushDone, bqConsumer, bqStopper>>
    /\ UNCHANGED outsideBQ

\* push, line 56-59: notEmptyCv_.notify_one(); return true
BPushNotify ==
    /\ bpc = "notify"
    /\ \/ notEmptyCv_ = {} /\ UNCHANGED notEmptyCv_
       \/ \E t \in notEmptyCv_ : notEmptyCv_' = notEmptyCv_ \ {t}
    /\ bpc' = "idle"
    /\ bPushDone' = bPushDone + 1
    /\ UNCHANGED <<bqShared, mtx_, notFullCv_, stopped_>>
    /\ UNCHANGED <<bItem, bWaited, bqPushed, bPushCalls, bqConsumer, bqStopper>>
    /\ UNCHANGED outsideBQ

\* the consumer thread calls pop(item)
BPopCall ==
    /\ bcpc = "idle"
    /\ bPopCalls < MaxOps
    /\ bPopCalls' = bPopCalls + 1
    /\ bcWaited' = FALSE
    /\ bcpc' = "lock"
    /\ UNCHANGED <<bqShared, bqSync, bOut, bqPopped, bPopDone, bqProducer, bqStopper>>
    /\ UNCHANGED outsideBQ

\* pop, line 65: std::unique_lock lock(mtx_)
BPopLock ==
    /\ bcpc = "lock"
    /\ mtx_ = "none"
    /\ mtx_' = "consumer"
    /\ bcpc' = "check"
    /\ UNCHANGED <<bqShared, notFullCv_, notEmptyCv_, stopped_>>
    /\ UNCHANGED <<bOut, bcWaited, bqPopped, bPopCalls, bPopDone, bqProducer, bqStopper>>
    /\ UNCHANGED outsideBQ

\* pop, line 68-69: notEmptyCv_.wait(lock, pred)
BPopCheck ==
    /\ bcpc = "check"
    /\ IF PopPredicate
       THEN /\ bcpc' = "read"
            /\ UNCHANGED <<mtx_, notEmptyCv_, bcWaited>>
       ELSE /\ bcpc' = "wait"
            /\ mtx_' = "none"
            /\ notEmptyCv_' = notEmptyCv_ \cup {"consumer"}
            /\ bcWaited' = TRUE
    /\ UNCHANGED <<bqShared, notFullCv_, stopped_>>
    /\ UNCHANGED <<bOut, bqPopped, bPopCalls, bPopDone, bqProducer, bqStopper>>
    /\ UNCHANGED outsideBQ

\* pop, line 68-69: the wait returns by reacquiring the lock
BPopRelock ==
    /\ bcpc = "wait"
    /\ "consumer" \notin notEmptyCv_
    /\ mtx_ = "none"
    /\ mtx_' = "consumer"
    /\ bcpc' = "check"
    /\ UNCHANGED <<bqShared, notFullCv_, notEmptyCv_, stopped_>>
    /\ UNCHANGED <<bOut, bcWaited, bqPopped, bPopCalls, bPopDone, bqProducer, bqStopper>>
    /\ UNCHANGED outsideBQ

\* BPopRead whose count_ stops at 0 instead of wrapping
BPopReadSaturating ==
    /\ bcpc = "read"
    /\ bOut' = bq_buffer_[bq_readIndex_]
    /\ bq_readIndex_' = (bq_readIndex_ + 1) % BQCapacity
    /\ bq_count_' = IF bq_count_ = 0 THEN 0 ELSE bq_count_ - 1
    /\ mtx_' = "none"
    /\ bqPopped' = Append(bqPopped, bq_buffer_[bq_readIndex_])
    /\ bcpc' = "notify"
    /\ UNCHANGED <<bq_buffer_, bq_writeIndex_, notFullCv_, notEmptyCv_, stopped_>>
    /\ UNCHANGED <<bcWaited, bPopCalls, bPopDone, bqProducer, bqStopper>>
    /\ UNCHANGED outsideBQ

\* pop, line 74-81: copy the slot out, advance readIndex_, count_--, unlock
BPopRead ==
    /\ bcpc = "read"
    /\ bOut' = bq_buffer_[bq_readIndex_]
    /\ bq_readIndex_' = (bq_readIndex_ + 1) % BQCapacity
    /\ bq_count_' = WrapCount(bq_count_ - 1)
    /\ mtx_' = "none"
    /\ bqPopped' = Append(bqPopped, bq_buffer_[bq_readIndex_])
    /\ bcpc' = "notify"
    /\ UNCHANGED <<bq_buffer_, bq_writeIndex_, notFullCv_, notEmptyCv_, stopped_>>
    /\ UNCHANGED <<bcWaited, bPopCalls, bPopDone, bqProducer, bqStopper>>
    /\ UNCHANGED outsideBQ

\* BPopNotify that returns without notifying notFullCv_
BPopNotifyMissing ==
    /\ bcpc = "notify"
    /\ bcpc' = "idle"
    /\ bPopDone' = bPopDone + 1
    /\ UNCHANGED <<bqShared, mtx_, notFullCv_, notEmptyCv_, stopped_>>
    /\ UNCHANGED <<bOut, bcWaited, bqPopped, bPopCalls, bqProducer, bqStopper>>
    /\ UNCHANGED outsideBQ

\* pop, line 84-87: notFullCv_.notify_one(); return true
BPopNotify ==
    /\ bcpc = "notify"
    /\ \/ notFullCv_ = {} /\ UNCHANGED notFullCv_
       \/ \E t \in notFullCv_ : notFullCv_' = notFullCv_ \ {t}
    /\ bcpc' = "idle"
    /\ bPopDone' = bPopDone + 1
    /\ UNCHANGED <<bqShared, mtx_, notEmptyCv_, stopped_>>
    /\ UNCHANGED <<bOut, bcWaited, bqPopped, bPopCalls, bqProducer, bqStopper>>
    /\ UNCHANGED outsideBQ

\* a thread calls stop()
StopCall ==
    /\ spc = "idle"
    /\ stopCalls < MaxStops
    /\ stopCalls' = stopCalls + 1
    /\ spc' = "lock"
    /\ UNCHANGED <<bqShared, bqSync, stopsDone, bqProducer, bqConsumer>>
    /\ UNCHANGED outsideBQ

\* stop, line 26: std::lock_guard<std::mutex> lock(mtx_)
StopLock ==
    /\ spc = "lock"
    /\ mtx_ = "none"
    /\ mtx_' = "stopper"
    /\ spc' = "set"
    /\ UNCHANGED <<bqShared, notFullCv_, notEmptyCv_, stopped_>>
    /\ UNCHANGED <<stopCalls, stopsDone, bqProducer, bqConsumer>>
    /\ UNCHANGED outsideBQ

\* StopSet that flips the flag instead of setting it
StopSetToggle ==
    /\ spc = "set"
    /\ stopped_' = ~stopped_
    /\ mtx_' = "none"
    /\ spc' = "notifyFull"
    /\ UNCHANGED <<bqShared, notFullCv_, notEmptyCv_>>
    /\ UNCHANGED <<stopCalls, stopsDone, bqProducer, bqConsumer>>
    /\ UNCHANGED outsideBQ

\* stop, line 27-28: stopped_ = true; the lock_guard releases mtx_
StopSet ==
    /\ spc = "set"
    /\ stopped_' = TRUE
    /\ mtx_' = "none"
    /\ spc' = "notifyFull"
    /\ UNCHANGED <<bqShared, notFullCv_, notEmptyCv_>>
    /\ UNCHANGED <<stopCalls, stopsDone, bqProducer, bqConsumer>>
    /\ UNCHANGED outsideBQ

\* StopNotifyFull without the notification
StopNotifyFullMissing ==
    /\ spc = "notifyFull"
    /\ spc' = "notifyEmpty"
    /\ UNCHANGED <<bqShared, bqSync>>
    /\ UNCHANGED <<stopCalls, stopsDone, bqProducer, bqConsumer>>
    /\ UNCHANGED outsideBQ

\* stop, line 30: notFullCv_.notify_all()
StopNotifyFull ==
    /\ spc = "notifyFull"
    /\ notFullCv_' = {}
    /\ spc' = "notifyEmpty"
    /\ UNCHANGED <<bqShared, mtx_, notEmptyCv_, stopped_>>
    /\ UNCHANGED <<stopCalls, stopsDone, bqProducer, bqConsumer>>
    /\ UNCHANGED outsideBQ

\* stop, line 31: notEmptyCv_.notify_all(); stop returns
StopNotifyEmpty ==
    /\ spc = "notifyEmpty"
    /\ notEmptyCv_' = {}
    /\ spc' = "idle"
    /\ stopsDone' = stopsDone + 1
    /\ UNCHANGED <<bqShared, mtx_, notFullCv_, stopped_>>
    /\ UNCHANGED <<stopCalls, bqProducer, bqConsumer>>
    /\ UNCHANGED outsideBQ

\* std::condition_variable::wait may return without a notification
SpuriousWake ==
    /\ \E t \in notFullCv_ \cup notEmptyCv_ :
          /\ notFullCv_' = notFullCv_ \ {t}
          /\ notEmptyCv_' = notEmptyCv_ \ {t}
    /\ UNCHANGED <<bqShared, mtx_, stopped_, bqProducer, bqConsumer, bqStopper>>
    /\ UNCHANGED outsideBQ

\* steps of a push call in flight
BProducerRun == BPushLock \/ BPushCheck \/ BPushRelock \/ BPushWrite \/ BPushNotify

\* steps of a pop call in flight
BConsumerRun == BPopLock \/ BPopCheck \/ BPopRelock \/ BPopRead \/ BPopNotify

\* steps of a stop call in flight
StopperRun == StopLock \/ StopSet \/ StopNotifyFull \/ StopNotifyEmpty

(***************************************************************************)
(* FIXMessage: addField appends "tag=value<SOH>" to the body, finalize     *)
(* frames the body with BeginString, BodyLength and CheckSum.              *)
(***************************************************************************)
\* constexpr char SOH = '\x01'
SOH == 1

\* the divisor of "sum % 256"
CheckSumMod == 256

\* a string literal as its bytes (ASCII)
Ascii(c) ==
    CASE c = "-" -> 45 [] c = "." -> 46 [] c = "=" -> 61
      [] c = "0" -> 48 [] c = "1" -> 49 [] c = "2" -> 50 [] c = "4" -> 52
      [] c = "8" -> 56 [] c = "9" -> 57
      [] c = "F" -> 70 [] c = "I" -> 73 [] c = "X" -> 88

\* the default argument of the constructor: beginString_ = "FIX.4.2"
beginString_ ==
    <<Ascii("F"), Ascii("I"), Ascii("X"), Ascii("."), Ascii("4"), Ascii("."), Ascii("2")>>

RECURSIVE NatToString(_)
\* decimal digits of a non-negative number, most significant first
NatToString(n) ==
    IF n < 10 THEN <<Ascii("0") + n>>
    ELSE Append(NatToString(n \div 10), Ascii("0") + (n % 10))

\* std::to_string(int) and std::format "{}" of an integer
to_string(n) == IF n < 0 THEN <<Ascii("-")>> \o NatToString(0 - n) ELSE NatToString(n)

\* FormatPadded that pads nothing
FormatPlain(n) == NatToString(n)

\* std::format "{:03}" of an unsigned: zero-padded to width 3, never truncated
FormatPadded(n) ==
    LET digits == NatToString(n)
    IN  IF Len(digits) >= 3 THEN digits
        ELSE [i \in 1 .. 3 - Len(digits) |-> Ascii("0")] \o digits

RECURSIVE Accumulate(_)
\* std::accumulate(begin, end, 0) over the bytes
Accumulate(bytes) ==
    IF bytes = <<>> THEN 0 ELSE bytes[1] + Accumulate(Tail(bytes))

\* the tags and the values the callers pass to addField
FieldTags == {-1, 35, 269}

FieldValues == {<<>>, <<Ascii("1"), Ascii("."), Ascii("2")>>}

\* FIXMessage(): both buffers empty
InitFIX ==
    /\ fix_bodyBuffer_ = <<>>
    /\ fix_finalMessageBuffer_ = <<>>
    /\ fix_fields = <<>>
    /\ fix_lastOp = "constructor"
    /\ fix_overwrote = FALSE

\* addField, line 25-40: append to_string(tag), '=', value, SOH to bodyBuffer_
AddField ==
    /\ Len(fix_fields) < MaxFields
    /\ \E tag \in FieldTags, value \in FieldValues :
          /\ fix_bodyBuffer_' =
                fix_bodyBuffer_ \o to_string(tag) \o <<Ascii("=")>> \o value \o <<SOH>>
          /\ fix_fields' = Append(fix_fields, <<tag, value>>)
    /\ fix_lastOp' = "addField"
    /\ UNCHANGED <<fix_finalMessageBuffer_, fix_overwrote>>
    /\ UNCHANGED outsideFIX

\* Finalize without finalMessageBuffer_.clear(): the message is appended
FinalizeNoClear ==
    /\ LET header == <<Ascii("8"), Ascii("=")>> \o beginString_ \o <<SOH>>
                      \o <<Ascii("9"), Ascii("=")>> \o to_string(Len(fix_bodyBuffer_))
                      \o <<SOH>>
           summed == fix_finalMessageBuffer_ \o header \o fix_bodyBuffer_
           checkSum == Accumulate(summed) % CheckSumMod
       IN  fix_finalMessageBuffer_' =
              summed \o <<Ascii("1"), Ascii("0"), Ascii("=")>>
                     \o FormatPadded(checkSum) \o <<SOH>>
    /\ fix_lastOp' = "finalize"
    /\ fix_overwrote' = (/\ fix_finalMessageBuffer_ # <<>>
                         /\ fix_finalMessageBuffer_' # fix_finalMessageBuffer_)
    /\ UNCHANGED <<fix_bodyBuffer_, fix_fields>>
    /\ UNCHANGED outsideFIX

\* finalize, line 42-83: header "8=", beginString_, SOH, "9=", size, SOH; the
\* body; then "10=", the sum of all those bytes % 256 as {:03}, SOH
Finalize ==
    /\ LET header == <<Ascii("8"), Ascii("=")>> \o beginString_ \o <<SOH>>
                      \o <<Ascii("9"), Ascii("=")>> \o to_string(Len(fix_bodyBuffer_))
                      \o <<SOH>>
           summed == header \o fix_bodyBuffer_
           checkSum == Accumulate(summed) % CheckSumMod
       IN  fix_finalMessageBuffer_' =
              summed \o <<Ascii("1"), Ascii("0"), Ascii("=")>>
                     \o FormatPadded(checkSum) \o <<SOH>>
    /\ fix_lastOp' = "finalize"
    /\ fix_overwrote' = (/\ fix_finalMessageBuffer_ # <<>>
                         /\ fix_finalMessageBuffer_' # fix_finalMessageBuffer_)
    /\ UNCHANGED <<fix_bodyBuffer_, fix_fields>>
    /\ UNCHANGED outsideFIX

\* clearBody, line 98-101: bodyBuffer_.clear()
ClearBody ==
    /\ fix_bodyBuffer_' = <<>>
    /\ fix_fields' = <<>>
    /\ fix_lastOp' = "clearBody"
    /\ UNCHANGED <<fix_finalMessageBuffer_, fix_overwrote>>
    /\ UNCHANGED outsideFIX

\* a caller that builds messages: addField calls, finalize, clearBody
NextFIX ==
    \/ AddField
    \/ Finalize
    \/ ClearBody

(***************************************************************************)
(* The producer process: main constructs an orchestrator, starts its three *)
(* tasks, waits for a signal, calls stop() and leaves.                     *)
(* Blocking orchestrators: MarketDataSystemGBM and MarketDataSystemRW      *)
(* (same control flow, kind "GBM") and MarketDataSystem (kind "Legacy").   *)
(* Lock-free orchestrators: MarketDataSystemNonBlocking (kind              *)
(* "NonBlocking") and MarketDataSystemRWNonBlocking (kind "RWNonBlocking").*)
(* A critical section under the queue's mutex is one step.                 *)
(***************************************************************************)
TickCapacity == 2 ^ TickLogCapacity

Tasks == {"producer", "consumer", "monitor"}

Threads == Tasks \cup {"main"}

BlockingKinds == {"GBM", "Legacy"}

LockFreeKinds == {"NonBlocking", "RWNonBlocking"}

\* the process before main constructs the orchestrator; the members'
\* initialisers: running_{true}, ticksGenerated_{0}, ticksSent_{0}
InitMDS ==
    /\ mds_kind = "none"
    /\ sender_ = "unset"
    /\ running_ = TRUE
    /\ keepRunning = TRUE
    /\ CVMonitor_ = {}
    /\ signal = "none"
    /\ alive = TRUE
    /\ mds_pc = [t \in Threads |-> IF t = "main" THEN "new" ELSE "unborn"]
    /\ tick = "none"
    /\ sent = FALSE
    /\ sendto = "none"
    /\ ticksGenerated_ = 0
    /\ ticksSent_ = 0
    /\ genTotal = 0
    /\ genReported = 0
    /\ sentTotal = 0
    /\ sentReported = 0
    /\ sendsReturned = 0
    /\ tq_buffer_ = [i \in 0 .. TickCapacity - 1 |-> "none"]
    /\ tq_writeIndex_ = 0
    /\ tq_readIndex_ = 0
    /\ tq_count_ = 0
    /\ tq_notFullCv_ = {}
    /\ tq_notEmptyCv_ = {}
    /\ lq_buffer_ = [i \in 0 .. TickCapacity - 1 |-> "none"]
    /\ lq_writeIndex_ = 0
    /\ lq_readIndex_ = 0
    /\ pushers = {}
    /\ poppers = {}
    /\ encoded = {}
    /\ made = 0
    /\ unsent = FALSE

\* thread t of the live process is at position pos
At(t, pos) == alive /\ mds_pc[t] = pos

\* thread t moves to position pos
Goto(t, pos) == mds_pc' = [mds_pc EXCEPT ![t] = pos]

\* main, producer_gbm.cpp line 22 (analyzer_main.cpp line 70): the constructor
\* of MarketDataSystemGBM / MarketDataSystemRW builds the sender; an exception
\* of UDPMulticastSender is caught and logged, sender_ stays null and the
\* constructor returns
ConstructBlocking ==
    /\ At("main", "new")
    /\ mds_kind' = "GBM"
    /\ \E outcome \in {"ok", "null"} : sender_' = outcome
    /\ Goto("main", "constructed")
    /\ UNCHANGED <<running_, keepRunning, CVMonitor_, signal, alive>>
    /\ UNCHANGED <<mdsLocals, mdsCounters, mdsTq, mdsLq, mdsHist>>
    /\ UNCHANGED outsideMDS

\* a main that uses MarketDataSystem, whose constructor does the same
ConstructLegacy ==
    /\ At("main", "new")
    /\ mds_kind' = "Legacy"
    /\ \E outcome \in {"ok", "null"} : sender_' = outcome
    /\ Goto("main", "constructed")
    /\ UNCHANGED <<running_, keepRunning, CVMonitor_, signal, alive>>
    /\ UNCHANGED <<mdsLocals, mdsCounters, mdsTq, mdsLq, mdsHist>>
    /\ UNCHANGED outsideMDS

\* main, part_000 line 105 / 146: the lock-free orchestrators' constructors
\* catch the sender's exception in the same way
ConstructLockFree ==
    /\ At("main", "new")
    /\ \E kind \in LockFreeKinds : mds_kind' = kind
    /\ \E outcome \in {"ok", "null"} : sender_' = outcome
    /\ Goto("main", "constructed")
    /\ UNCHANGED <<running_, keepRunning, CVMonitor_, signal, alive>>
    /\ UNCHANGED <<mdsLocals, mdsCounters, mdsTq, mdsLq, mdsHist>>
    /\ UNCHANGED outsideMDS

\* start(): three jthreads are emplaced; main enters its wait loop
Start ==
    /\ At("main", "constructed")
    /\ mds_pc' = [t \in Threads |-> IF t = "main" THEN "serving" ELSE "check"]
    /\ UNCHANGED <<mdsCtl, mdsLocals, mdsCounters, mdsTq, mdsLq, mdsHist>>
    /\ UNCHANGED outsideMDS

\* the signals main has installed a handler for: producer_gbm.cpp line 19 and
\* analyzer_main.cpp line 64 install SIGINT only, part_000 line 101-102 both
Handled(kind) == IF kind \in BlockingKinds THEN {"SIGINT"} ELSE {"SIGINT", "SIGTERM"}

\* the process ends abnormally: its threads and its memory are gone
ProcessEnds(positions) ==
    /\ alive' = FALSE
    /\ CVMonitor_' = {}
    /\ mds_pc' = positions
    /\ tick' = "none"
    /\ sent' = FALSE
    /\ ticksGenerated_' = 0
    /\ ticksSent_' = 0
    /\ genTotal' = 0
    /\ genReported' = 0
    /\ sentTotal' = 0
    /\ sentReported' = 0
    /\ sendsReturned' = 0
    /\ tq_buffer_' = [i \in 0 .. TickCapacity - 1 |-> "none"]
    /\ tq_writeIndex_' = 0
    /\ tq_readIndex_' = 0
    /\ tq_count_' = 0
    /\ tq_notFullCv_' = {}
    /\ tq_notEmptyCv_' = {}
    /\ lq_buffer_' = [i \in 0 .. TickCapacity - 1 |-> "none"]
    /\ lq_writeIndex_' = 0
    /\ lq_readIndex_' = 0

\* a signal arrives while main waits: the handler clears keepRunning; a
\* signal without handler terminates the process (default disposition)
Signal ==
    /\ At("main", "serving")
    /\ signal = "none"
    /\ \E sig \in {"SIGINT", "SIGTERM"} :
          /\ signal' = "raised"
          /\ IF sig \in Handled(mds_kind)
             THEN /\ keepRunning' = FALSE
                  /\ UNCHANGED <<alive, CVMonitor_, mds_pc, mdsLocals, mdsCounters, mdsTq, mdsLq>>
             ELSE /\ ProcessEnds([t \in Threads |-> "killed"])
                  /\ sendto' = "none"
                  /\ UNCHANGED keepRunning
    /\ UNCHANGED <<mds_kind, sender_, running_, mdsHist>>
    /\ UNCHANGED outsideMDS

\* main: "while (keepRunning) sleep" ends and stop() is called
MainLoop ==
    /\ At("main", "serving")
    /\ ~keepRunning
    /\ Goto("main", "stopStore")
    /\ UNCHANGED <<mdsCtl, mdsLocals, mdsCounters, mdsTq, mdsLq, mdsHist>>
    /\ UNCHANGED outsideMDS

\* stop(): running_.store(false, relaxed)
StopStore ==
    /\ At("main", "stopStore")
    /\ running_' = FALSE
    /\ Goto("main", "stopNotify")
    /\ UNCHANGED <<mds_kind, sender_, keepRunning, CVMonitor_, signal, alive>>
    /\ UNCHANGED <<mdsLocals, mdsCounters, mdsTq, mdsLq, mdsHist>>
    /\ UNCHANGED outsideMDS

\* blocking stop(): CVMonitor_.notify_all() (the monitor's wait_for also ends
\* by its time-out); then "MarketTick dummyTick; SPSCTickQueue_.push(dummyTick)"
\* is called on the calling thread
StopNotifyBlocking ==
    /\ At("main", "stopNotify")
    /\ mds_kind \in BlockingKinds
    /\ CVMonitor_' = {}
    /\ Goto("main", "push")
    /\ pushers' = pushers \cup {"main"}
    /\ UNCHANGED <<mds_kind, sender_, running_, keepRunning, signal, alive>>
    /\ UNCHANGED <<mdsLocals, mdsCounters, mdsTq, mdsLq>>
    /\ UNCHANGED <<poppers, encoded, made, unsent>>
    /\ UNCHANGED outsideMDS

\* lock-free stop(): CVMonitor_.notify_all(); return
StopNotifyLockFree ==
    /\ At("main", "stopNotify")
    /\ mds_kind \in LockFreeKinds
    /\ CVMonitor_' = {}
    /\ Goto("main", "stopped")
    /\ UNCHANGED <<mds_kind, sender_, running_, keepRunning, signal, alive>>
    /\ UNCHANGED <<mdsLocals, mdsCounters, mdsTq, mdsLq, mdsHist>>
    /\ UNCHANGED outsideMDS

\* main leaves: the orchestrator's destructor finds running_ false, and the
\* destruction of threads_ joins the three jthreads
MainExit ==
    /\ At("main", "stopped")
    /\ \A t \in Tasks : mds_pc[t] = "done"
    /\ Goto("main", "exited")
    /\ UNCHANGED <<mdsCtl, mdsLocals, mdsCounters, mdsTq, mdsLq, mdsHist>>
    /\ UNCHANGED outsideMDS

\* The steps of main's exit one by one. ~MarketDataSystemGBM, gbm.h line
\* 80-84: "if (running_.load()) stop();"
Destructor ==
    /\ At("main", "stopped")
    /\ Goto("main", IF running_ THEN "stopStore" ELSE "destroyCVMutex_")
    /\ UNCHANGED <<mdsCtl, mdsLocals, mdsCounters, mdsTq, mdsLq, mdsHist>>
    /\ UNCHANGED outsideMDS

\* the members are destroyed in the reverse of their declaration order,
\* gbm.h line 91-100: CVMutex_ (line 100) first
DestroyCVMutex ==
    /\ At("main", "destroyCVMutex_")
    /\ Goto("main", "destroyCVMonitor_")
    /\ UNCHANGED <<mdsCtl, mdsLocals, mdsCounters, mdsTq, mdsLq, mdsHist>>
    /\ UNCHANGED outsideMDS

\* then CVMonitor_ (line 99); a thread blocked in wait_for stays blocked
DestroyCVMonitor ==
    /\ At("main", "destroyCVMonitor_")
    /\ Goto("main", "destroyRunning_")
    /\ UNCHANGED <<mdsCtl, mdsLocals, mdsCounters, mdsTq, mdsLq, mdsHist>>
    /\ UNCHANGED outsideMDS

\* then running_ (line 98); the storage keeps the value false
DestroyRunning ==
    /\ At("main", "destroyRunning_")
    /\ Goto("main", "join")
    /\ UNCHANGED <<mdsCtl, mdsLocals, mdsCounters, mdsTq, mdsLq, mdsHist>>
    /\ UNCHANGED outsideMDS

\* then threads_ (line 97): each std::jthread joins its task; the counters,
\* sender_ and SPSCTickQueue_ (line 92-96) are destroyed after that
JoinThreads ==
    /\ At("main", "join")
    /\ \A t \in Tasks : mds_pc[t] = "done"
    /\ Goto("main", "exited")
    /\ UNCHANGED <<mdsCtl, mdsLocals, mdsCounters, mdsTq, mdsLq, mdsHist>>
    /\ UNCHANGED outsideMDS

\* the members whose destruction has begun when main is at a position
Torn ==
    CASE mds_pc["main"] = "destroyCVMonitor_" -> {"CVMutex_"}
      [] mds_pc["main"] = "destroyRunning_" -> {"CVMutex_", "CVMonitor_"}
      [] mds_pc["main"] = "join" -> {"CVMutex_", "CVMonitor_", "running_"}
      [] mds_pc["main"] = "exited" ->
             {"CVMutex_", "CVMonitor_", "running_", "threads_", "ticksSent_",
              "ticksGenerated_", "sender_", "SPSCTickQueue_"}
      [] OTHER -> {}

\* the members the next step of task t touches: the loop conditions read
\* running_; monitorThread holds a unique_lock on CVMutex_ from line 188 to
\* the end of the iteration and waits on CVMonitor_ with it (line 189-190)
UsesAt(t) ==
    CASE t = "producer" /\ mds_pc[t] = "check" -> {"running_"}
      [] t = "producer" /\ mds_pc[t] \in {"push", "pushWait", "pushNotify"} -> {"SPSCTickQueue_"}
      [] t = "producer" /\ mds_pc[t] = "count" -> {"ticksGenerated_"}
      [] t = "consumer" /\ mds_pc[t] \in {"check", "recheck", "sendLoop"} -> {"running_"}
      [] t = "consumer" /\ mds_pc[t] \in {"pop", "popWait", "popNotify"} -> {"SPSCTickQueue_"}
      [] t = "consumer" /\ mds_pc[t] \in {"encode", "send"} -> {"sender_"}
      [] t = "consumer" /\ mds_pc[t] = "count" -> {"ticksSent_"}
      [] t = "monitor" /\ mds_pc[t] = "check" -> {"running_"}
      [] t = "monitor" /\ mds_pc[t] = "pred" -> {"CVMutex_", "running_"}
      [] t = "monitor" /\ mds_pc[t] = "block" -> {"CVMutex_", "CVMonitor_"}
      [] t = "monitor" /\ mds_pc[t] = "wait" -> {"CVMutex_", "CVMonitor_", "running_"}
      [] t = "monitor" /\ mds_pc[t] = "exchangeGen" -> {"CVMutex_", "ticksGenerated_"}
      [] t = "monitor" /\ mds_pc[t] = "exchangeSent" -> {"CVMutex_", "ticksSent_"}
      [] OTHER -> {}

\* a task touches a member whose destruction has begun: the behaviour is
\* undefined. The task's ordinary step stays possible (the storage is still
\* there); the other outcome is that the process dies
UseAfterDestruction ==
    /\ alive
    /\ \E t \in Tasks : UsesAt(t) \cap Torn # {}
    /\ ProcessEnds([t \in Threads |-> "aborted"])
    /\ sendto' = "none"
    /\ UNCHANGED <<mds_kind, sender_, running_, keepRunning, signal>>
    /\ UNCHANGED mdsHist
    /\ UNCHANGED outsideMDS

\* the item a thread passes to push: stop() passes a default MarketTick
ItemOf(t) == IF t = "main" THEN "dummy" ELSE "tick"

\* BlockingRingBuffer::push, part_004 line 37-53: lock, wait until
\* count_ < Capacity (stopped_ stays false: no orchestrator calls the queue's
\* stop()), write the slot, advance writeIndex_, count_++, unlock; or block
TqPush(t) ==
    /\ alive
    /\ \/ mds_pc[t] = "push"
       \/ mds_pc[t] = "pushWait" /\ t \notin tq_notFullCv_
    /\ IF tq_count_ < TickCapacity
       THEN /\ tq_buffer_' = [tq_buffer_ EXCEPT ![tq_writeIndex_] = ItemOf(t)]
            /\ tq_writeIndex_' = (tq_writeIndex_ + 1) % TickCapacity
            /\ tq_count_' = tq_count_ + 1
            /\ Goto(t, "pushNotify")
            /\ UNCHANGED tq_notFullCv_
       ELSE /\ tq_notFullCv_' = tq_notFullCv_ \cup {t}
            /\ Goto(t, "pushWait")
            /\ UNCHANGED <<tq_buffer_, tq_writeIndex_, tq_count_>>
    /\ UNCHANGED <<tq_readIndex_, tq_notEmptyCv_>>
    /\ UNCHANGED <<mdsCtl, mdsLocals, mdsCounters, mdsLq, mdsHist>>
    /\ UNCHANGED outsideMDS

\* push, part_004 line 56-59: notEmptyCv_.notify_one(); return true
TqPushNotify(t) ==
    /\ At(t, "pushNotify")
    /\ \/ tq_notEmptyCv_ = {} /\ UNCHANGED tq_notEmptyCv_
       \/ \E w \in tq_notEmptyCv_ : tq_notEmptyCv_' = tq_notEmptyCv_ \ {w}
    /\ Goto(t, IF t = "main" THEN "stopped" ELSE "count")
    /\ UNCHANGED <<tq_buffer_, tq_writeIndex_, tq_readIndex_, tq_count_, tq_notFullCv_>>
    /\ UNCHANGED <<mdsCtl, mdsLocals, mdsCounters, mdsLq, mdsHist>>
    /\ UNCHANGED outsideMDS

\* BlockingRingBuffer::pop, part_004 line 65-81: lock, wait until count_ > 0,
\* copy the slot into the consumer's tick, advance readIndex_, count_--, unlock
TqPop ==
    /\ alive
    /\ \/ mds_pc["consumer"] = "pop"
       \/ mds_pc["consumer"] = "popWait" /\ "consumer" \notin tq_notEmptyCv_
    /\ IF tq_count_ > 0
       THEN /\ tick' = tq_buffer_[tq_readIndex_]
            /\ tq_readIndex_' = (tq_readIndex_ + 1) % TickCapacity
            /\ tq_count_' = tq_count_ - 1
            /\ Goto("consumer", "popNotify")
            /\ UNCHANGED tq_notEmptyCv_
       ELSE /\ tq_notEmptyCv_' = tq_notEmptyCv_ \cup {"consumer"}
            /\ Goto("consumer", "popWait")
            /\ UNCHANGED <<tick, tq_readIndex_, tq_count_>>
    /\ UNCHANGED <<tq_buffer_, tq_writeIndex_, tq_notFullCv_, sent, sendto>>
    /\ UNCHANGED <<mdsCtl, mdsCounters, mdsLq, mdsHist>>
    /\ UNCHANGED outsideMDS

\* pop, part_004 line 84-87: notFullCv_.notify_one(); return true
TqPopNotify ==
    /\ At("consumer", "popNotify")
    /\ \/ tq_notFullCv_ = {} /\ UNCHANGED tq_notFullCv_
       \/ \E w \in tq_notFullCv_ : tq_notFullCv_' = tq_notFullCv_ \ {w}
    /\ Goto("consumer", "recheck")
    /\ UNCHANGED <<tq_buffer_, tq_writeIndex_, tq_readIndex_, tq_count_, tq_notEmptyCv_>>
    /\ UNCHANGED <<mdsCtl, mdsLocals, mdsCounters, mdsLq, mdsHist>>
    /\ UNCHANGED outsideMDS

\* a wait on notFullCv_ or notEmptyCv_ returns without a notification
TqSpuriousWake ==
    /\ alive
    /\ \E w \in tq_notFullCv_ \cup tq_notEmptyCv_ :
          /\ tq_notFullCv_' = tq_notFullCv_ \ {w}
          /\ tq_notEmptyCv_' = tq_notEmptyCv_ \ {w}
    /\ UNCHANGED <<tq_buffer_, tq_writeIndex_, tq_readIndex_, tq_count_>>
    /\ UNCHANGED <<mdsCtl, mds_pc, mdsLocals, mdsCounters, mdsLq, mdsHist>>
    /\ UNCHANGED outsideMDS

\* producerThread: "while (running_.load())"; the next tick is generated and
\* push is called, or the task returns (at most MaxTicks ticks are generated)
ProducerLoop ==
    /\ At("producer", "check")
    /\ IF running_
       THEN /\ made < MaxTicks
            /\ made' = made + 1
            /\ Goto("producer", IF mds_kind \in BlockingKinds THEN "push" ELSE "loadRead")
            /\ pushers' = pushers \cup {"producer"}
       ELSE /\ Goto("producer", "done")
            /\ UNCHANGED <<pushers, made>>
    /\ UNCHANGED <<mdsCtl, mdsLocals, mdsCounters, mdsTq, mdsLq>>
    /\ UNCHANGED <<poppers, encoded, unsent>>
    /\ UNCHANGED outsideMDS

\* producerThread: ticksGenerated_.fetch_add(1), then the sleep
ProducerCount ==
    /\ At("producer", "count")
    /\ ticksGenerated_' = ticksGenerated_ + 1
    /\ genTotal' = genTotal + 1
    /\ Goto("producer", "check")
    /\ UNCHANGED <<mdsCtl, mdsLocals, ticksSent_, genReported, sentMetrics, mdsTq, mdsLq, mdsHist>>
    /\ UNCHANGED outsideMDS

\* consumerThread: "while (running_.load())"; pop is called, or the task returns
ConsumerLoop ==
    /\ At("consumer", "check")
    /\ IF running_
       THEN /\ Goto("consumer", IF mds_kind \in BlockingKinds THEN "pop" ELSE "loadWrite")
            /\ poppers' = poppers \cup {"consumer"}
       ELSE /\ Goto("consumer", "done")
            /\ UNCHANGED poppers
    /\ UNCHANGED <<mdsCtl, mdsLocals, mdsCounters, mdsTq, mdsLq>>
    /\ UNCHANGED <<pushers, encoded, made, unsent>>
    /\ UNCHANGED outsideMDS

\* ConsumerRecheck that encodes whatever pop returned
ConsumerRecheckSkipped ==
    /\ At("consumer", "recheck")
    /\ Goto("consumer", "encode")
    /\ UNCHANGED <<mdsCtl, mdsLocals, mdsCounters, mdsTq, mdsLq, mdsHist>>
    /\ UNCHANGED outsideMDS

\* consumerThread after a successful pop: "if (!running_.load()) break;"
\* (MarketDataSystemRWNonBlocking has no such test and never gets here)
ConsumerRecheck ==
    /\ At("consumer", "recheck")
    /\ Goto("consumer", IF running_ THEN "encode" ELSE "done")
    /\ UNCHANGED <<mdsCtl, mdsLocals, mdsCounters, mdsTq, mdsLq, mdsHist>>
    /\ UNCHANGED outsideMDS

\* consumerThread: clearBody, addField..., finalize; then "if (sender_)".
\* Without sender MarketDataSystem still counts the tick, the others do not
ConsumerEncode ==
    /\ At("consumer", "encode")
    /\ encoded' = encoded \cup {tick}
    /\ unsent' = FALSE
    /\ sent' = FALSE
    /\ Goto("consumer",
            IF sender_ = "ok"
            THEN (IF mds_kind = "Legacy" THEN "send" ELSE "sendLoop")
            ELSE (IF mds_kind = "Legacy" THEN "count" ELSE "check"))
    /\ UNCHANGED <<mdsCtl, tick, sendto, mdsCounters, mdsTq, mdsLq, pushers, poppers, made>>
    /\ UNCHANGED outsideMDS

\* ConsumerSendLoop that skips the count when the loop ends without a send
ConsumerSendLoopSkip ==
    /\ At("consumer", "sendLoop")
    /\ Goto("consumer", IF ~sent /\ running_ THEN "send"
                        ELSE IF sent THEN "count" ELSE "check")
    /\ sent' = FALSE
    /\ sendto' = "none"
    /\ UNCHANGED <<mdsCtl, tick, mdsCounters, mdsTq, mdsLq, mdsHist>>
    /\ UNCHANGED outsideMDS

\* consumerThread: "while (!sent && running_.load())"; the scope of sent
\* ends with the loop
ConsumerSendLoop ==
    /\ At("consumer", "sendLoop")
    /\ Goto("consumer", IF ~sent /\ running_ THEN "send" ELSE "count")
    /\ sent' = FALSE
    /\ sendto' = "none"
    /\ UNCHANGED <<mdsCtl, tick, mdsCounters, mdsTq, mdsLq, mdsHist>>
    /\ UNCHANGED outsideMDS

\* what ::sendto hands back to UDPMulticastSender::send: all bytes, fewer
\* bytes than the message has, or -1 with an errno (EWOULDBLOCK has the
\* value of EAGAIN on the build's platform)
BufferFull == {"ENOBUFS", "EAGAIN"}
SendtoResults == {"full", "partial", "EPERM"} \cup BufferFull

\* UDPMulticastSender::send (part_005 line 67-97): bytesSent < 0 with errno
\* ENOBUFS / EAGAIN / EWOULDBLOCK throws std::runtime_error; any other
\* negative result is logged and the call returns; a short count is logged
\* and the call returns; a full count returns
sendRaisesAny(result) == IF result \in {"full", "partial"} THEN "returns" ELSE "throws"

send(result) == IF result \in BufferFull THEN "throws" ELSE "returns"

\* consumerThread: sender_->send(completeMessage); "sent = true" follows a
\* call that returned. The retry loop catches the exception and sleeps
\* 1 us; MarketDataSystem has no try block, so the exception leaves the
\* thread function (std::terminate). The history counter sendsReturned is
\* kept when counting is TRUE
ConsumerSendCall(counting) ==
    /\ At("consumer", "send")
    /\ \E result \in SendtoResults :
          /\ sendto' = result
          /\ IF send(result) = "returns"
             THEN /\ sent' = TRUE
                  /\ unsent' = FALSE
                  /\ sendsReturned' = IF counting THEN sendsReturned + 1 ELSE sendsReturned
                  /\ Goto("consumer", IF mds_kind = "Legacy" THEN "count" ELSE "sendLoop")
                  /\ UNCHANGED <<alive, CVMonitor_, tick, mdsTq, mdsLq>>
                  /\ UNCHANGED <<ticksGenerated_, ticksSent_, genMetrics, sentTotal, sentReported>>
             ELSE IF mds_kind # "Legacy"
             THEN /\ unsent' = TRUE
                  /\ Goto("consumer", "sendLoop")
                  /\ UNCHANGED <<alive, CVMonitor_, tick, sent, mdsCounters, mdsTq, mdsLq>>
             ELSE /\ unsent' = TRUE
                  /\ ProcessEnds([t \in Threads |->
                                     IF t = "consumer" THEN "terminated" ELSE "aborted"])
    /\ UNCHANGED <<mds_kind, sender_, running_, keepRunning, signal>>
    /\ UNCHANGED <<pushers, poppers, encoded, made>>
    /\ UNCHANGED outsideMDS

\* consumerThread: sender_->send(completeMessage)
ConsumerSend == ConsumerSendCall(FALSE)

\* the same call, with the calls that returned counted in sendsReturned
ConsumerSendCounted == ConsumerSendCall(TRUE)

\* consumerThread: ticksSent_.fetch_add(1)
ConsumerCount ==
    /\ At("consumer", "count")
    /\ ticksSent_' = ticksSent_ + 1
    /\ sentTotal' = sentTotal + 1
    /\ Goto("consumer", "check")
    /\ sent' = FALSE
    /\ sendto' = "none"
    /\ UNCHANGED <<mdsCtl, tick, ticksGenerated_, genMetrics, sentReported, sendsReturned, mdsTq, mdsLq, mdsHist>>
    /\ UNCHANGED outsideMDS

\* monitorThread: "while (running_.load())"; then CVMutex_ is locked (the
\* monitor is the only thread that ever locks it: stop() does not)
MonitorLoop ==
    /\ At("monitor", "check")
    /\ Goto("monitor", IF running_ THEN "pred" ELSE "done")
    /\ UNCHANGED <<mdsCtl, mdsLocals, mdsCounters, mdsTq, mdsLq, mdsHist>>
    /\ UNCHANGED outsideMDS

\* monitorThread: wait_for(lock, 1 s, pred) evaluates "!running_.load()":
\* true returns true ("if (stopping) break;"), false goes on to block
MonitorPredicate ==
    /\ At("monitor", "pred")
    /\ Goto("monitor", IF running_ THEN "block" ELSE "done")
    /\ UNCHANGED <<mdsCtl, mdsLocals, mdsCounters, mdsTq, mdsLq, mdsHist>>
    /\ UNCHANGED outsideMDS

\* wait_for: CVMutex_ is released and the thread blocks on CVMonitor_
MonitorBlock ==
    /\ At("monitor", "block")
    /\ CVMonitor_' = CVMonitor_ \cup {"monitor"}
    /\ Goto("monitor", "wait")
    /\ UNCHANGED <<mds_kind, sender_, running_, keepRunning, signal, alive>>
    /\ UNCHANGED <<mdsLocals, mdsCounters, mdsTq, mdsLq, mdsHist>>
    /\ UNCHANGED outsideMDS

\* wait_for: a notification has unblocked the thread; the predicate is
\* evaluated again
MonitorWake ==
    /\ At("monitor", "wait")
    /\ "monitor" \notin CVMonitor_
    /\ Goto("monitor", "pred")
    /\ UNCHANGED <<mdsCtl, mdsLocals, mdsCounters, mdsTq, mdsLq, mdsHist>>
    /\ UNCHANGED outsideMDS

\* wait_for: the second passes without a notification; wait_for returns the
\* predicate's value, "if (stopping) break;"
MonitorTimeout ==
    /\ At("monitor", "wait")
    /\ "monitor" \in CVMonitor_
    /\ CVMonitor_' = CVMonitor_ \ {"monitor"}
    /\ Goto("monitor", IF running_ THEN "exchangeGen" ELSE "done")
    /\ UNCHANGED <<mds_kind, sender_, running_, keepRunning, signal, alive>>
    /\ UNCHANGED <<mdsLocals, mdsCounters, mdsTq, mdsLq, mdsHist>>
    /\ UNCHANGED outsideMDS

\* MonitorExchangeGen with a load in place of the exchange
MonitorExchangeGenLoad ==
    /\ At("monitor", "exchangeGen")
    /\ genReported' = genReported + ticksGenerated_
    /\ Goto("monitor", "exchangeSent")
    /\ UNCHANGED <<mdsCtl, mdsLocals, ticksGenerated_, ticksSent_, genTotal, sentMetrics>>
    /\ UNCHANGED <<mdsTq, mdsLq, mdsHist>>
    /\ UNCHANGED outsideMDS

\* monitorThread: genCount = ticksGenerated_.exchange(0)
MonitorExchangeGen ==
    /\ At("monitor", "exchangeGen")
    /\ genReported' = genReported + ticksGenerated_
    /\ ticksGenerated_' = 0
    /\ Goto("monitor", "exchangeSent")
    /\ UNCHANGED <<mdsCtl, mdsLocals, ticksSent_, genTotal, sentMetrics, mdsTq, mdsLq, mdsHist>>
    /\ UNCHANGED outsideMDS

\* monitorThread: sentCount = ticksSent_.exchange(0); the metrics line is printed
MonitorExchangeSent ==
    /\ At("monitor", "exchangeSent")
    /\ sentReported' = sentReported + ticksSent_
    /\ ticksSent_' = 0
    /\ Goto("monitor", "check")
    /\ UNCHANGED <<mdsCtl, mdsLocals, ticksGenerated_, genMetrics, sentTotal, sendsReturned, mdsTq, mdsLq, mdsHist>>
    /\ UNCHANGED outsideMDS

\* slot of a cursor in the tick queue: cursor & (Capacity - 1)
TickSlotOf(cursor) == BitAnd(cursor, TickCapacity - 1)

\* LockFreeRingBuffer::push, line 34-43: currentWrite = writeIndex_.load(relaxed)
\* reads a cursor that only this task writes, so it is the cursor's value
\* throughout the call; readIndex_.load(acquire) is the step that races.
\* "nextWrite - currentRead > Capacity" returns false:
\* MarketDataSystemNonBlocking then drops the tick and sleeps,
\* MarketDataSystemRWNonBlocking goes round its retry loop
LqPushLoadRead ==
    /\ At("producer", "loadRead")
    /\ IF Wrap(Wrap(lq_writeIndex_ + 1) - lq_readIndex_) > TickCapacity
       THEN Goto("producer", IF mds_kind = "RWNonBlocking" THEN "retry" ELSE "check")
       ELSE Goto("producer", "copy")
    /\ UNCHANGED <<mdsCtl, mdsLocals, mdsCounters, mdsTq, mdsLq, mdsHist>>
    /\ UNCHANGED outsideMDS

\* push, line 46: buffer_[currentWrite & (Capacity - 1)] = item
LqPushCopy ==
    /\ At("producer", "copy")
    /\ lq_buffer_' = [lq_buffer_ EXCEPT ![TickSlotOf(lq_writeIndex_)] = ItemOf("producer")]
    /\ Goto("producer", "store")
    /\ UNCHANGED <<lq_writeIndex_, lq_readIndex_>>
    /\ UNCHANGED <<mdsCtl, mdsLocals, mdsCounters, mdsTq, mdsHist>>
    /\ UNCHANGED outsideMDS

\* push, line 47-49: writeIndex_.store(nextWrite, release); return true
LqPushStore ==
    /\ At("producer", "store")
    /\ lq_writeIndex_' = Wrap(lq_writeIndex_ + 1)
    /\ Goto("producer", "count")
    /\ UNCHANGED <<lq_buffer_, lq_readIndex_>>
    /\ UNCHANGED <<mdsCtl, mdsLocals, mdsCounters, mdsTq, mdsHist>>
    /\ UNCHANGED outsideMDS

\* ProducerRetry that never looks at running_
ProducerRetryBlind ==
    /\ At("producer", "retry")
    /\ Goto("producer", "loadRead")
    /\ UNCHANGED <<mdsCtl, mdsLocals, mdsCounters, mdsTq, mdsLq, mdsHist>>
    /\ UNCHANGED outsideMDS

\* MarketDataSystemRWNonBlocking::producerThread, line 136-141: after a
\* refused push "if (!running_.load()) return;", else yield and push again
ProducerRetry ==
    /\ At("producer", "retry")
    /\ Goto("producer", IF running_ THEN "loadRead" ELSE "done")
    /\ UNCHANGED <<mdsCtl, mdsLocals, mdsCounters, mdsTq, mdsLq, mdsHist>>
    /\ UNCHANGED outsideMDS

\* LockFreeRingBuffer::pop, line 54-61: currentRead = readIndex_.load(relaxed)
\* reads a cursor that only this task writes; writeIndex_.load(acquire) is
\* the step that races. "currentRead == currentWrite" returns false and
\* consumerThread yields and goes round its loop
LqPopLoadWrite ==
    /\ At("consumer", "loadWrite")
    /\ Goto("consumer", IF lq_readIndex_ = lq_writeIndex_ THEN "check" ELSE "copy")
    /\ UNCHANGED <<mdsCtl, mdsLocals, mdsCounters, mdsTq, mdsLq, mdsHist>>
    /\ UNCHANGED outsideMDS

\* pop, line 63: item = buffer_[currentRead & (Capacity - 1)]
LqPopCopy ==
    /\ At("consumer", "copy")
    /\ tick' = lq_buffer_[TickSlotOf(lq_readIndex_)]
    /\ Goto("consumer", "store")
    /\ UNCHANGED <<mdsCtl, sent, sendto, mdsCounters, mdsTq, mdsLq, mdsHist>>
    /\ UNCHANGED outsideMDS

\* pop, line 65-68: readIndex_.store(currentRead + 1, release); return true.
\* MarketDataSystemNonBlocking tests running_ next, MarketDataSystemRWNonBlocking
\* goes straight to the encoding
LqPopStore ==
    /\ At("consumer", "store")
    /\ lq_readIndex_' = Wrap(lq_readIndex_ + 1)
    /\ Goto("consumer", IF mds_kind = "RWNonBlocking" THEN "encode" ELSE "recheck")
    /\ UNCHANGED <<lq_buffer_, lq_writeIndex_>>
    /\ UNCHANGED <<mdsCtl, mdsLocals, mdsCounters, mdsTq, mdsHist>>
    /\ UNCHANGED outsideMDS

\* the main thread of a blocking producer process
MainRunBlocking ==
    \/ ConstructBlocking
    \/ Start
    \/ MainLoop
    \/ StopStore
    \/ StopNotifyBlocking
    \/ TqPush("main")
    \/ TqPushNotify("main")
    \/ MainExit

\* producerThread of a blocking orchestrator
ProducerRunBlocking ==
    ProducerLoop \/ TqPush("producer") \/ TqPushNotify("producer") \/ ProducerCount

\* the parts of consumerThread that all orchestrators share
ConsumerHandle ==
    \/ ConsumerLoop
    \/ ConsumerRecheck
    \/ ConsumerEncode
    \/ ConsumerSendLoop
    \/ ConsumerSend
    \/ ConsumerCount

\* consumerThread of a blocking orchestrator
ConsumerRunBlocking == ConsumerHandle \/ TqPop \/ TqPopNotify

\* monitorThread
MonitorRun ==
    \/ MonitorLoop
    \/ MonitorPredicate
    \/ MonitorBlock
    \/ MonitorWake
    \/ MonitorTimeout
    \/ MonitorExchangeGen
    \/ MonitorExchangeSent

\* the main thread of a lock-free producer process
MainRunLockFree ==
    \/ ConstructLockFree
    \/ Start
    \/ MainLoop
    \/ StopStore
    \/ StopNotifyLockFree
    \/ MainExit

\* producerThread of a lock-free orchestrator
ProducerRunLockFree ==
    \/ ProducerLoop
    \/ LqPushLoadRead
    \/ LqPushCopy
    \/ LqPushStore
    \/ ProducerRetry
    \/ ProducerCount

\* consumerThread of a lock-free orchestrator
ConsumerRunLockFree ==
    ConsumerHandle \/ LqPopLoadWrite \/ LqPopCopy \/ LqPopStore

\* part_000: main with a lock-free orchestrator
NextMDSLockFree ==
    \/ ConstructLockFree
    \/ Start
    \/ Signal
    \/ MainLoop
    \/ StopStore
    \/ StopNotifyLockFree
    \/ MainExit
    \/ ProducerLoop
    \/ LqPushLoadRead
    \/ LqPushCopy
    \/ LqPushStore
    \/ ProducerRetry
    \/ ProducerCount
    \/ ConsumerLoop
    \/ LqPopLoadWrite
    \/ LqPopCopy
    \/ LqPopStore
    \/ ConsumerRecheck
    \/ ConsumerEncode
    \/ ConsumerSendLoop
    \/ ConsumerSend
    \/ ConsumerCount
    \/ MonitorLoop
    \/ MonitorPredicate
    \/ MonitorBlock
    \/ MonitorWake
    \/ MonitorTimeout
    \/ MonitorExchangeGen
    \/ MonitorExchangeSent

\* producer_gbm.cpp / analyzer_main.cpp with a blocking orchestrator
NextMDSBlocking ==
    \/ ConstructBlocking
    \/ Start
    \/ Signal
    \/ MainLoop
    \/ StopStore
    \/ StopNotifyBlocking
    \/ MainExit
    \/ \E t \in {"producer", "main"} : TqPush(t)
    \/ \E t \in {"producer", "main"} : TqPushNotify(t)
    \/ TqPop
    \/ TqPopNotify
    \/ TqSpuriousWake
    \/ ProducerLoop
    \/ ProducerCount
    \/ ConsumerLoop
    \/ ConsumerRecheck
    \/ ConsumerEncode
    \/ ConsumerSendLoop
    \/ ConsumerSend
    \/ ConsumerCount
    \/ MonitorLoop
    \/ MonitorPredicate
    \/ MonitorBlock
    \/ MonitorWake
    \/ MonitorTimeout
    \/ MonitorExchangeGen
    \/ MonitorExchangeSent

\* NextMDSBlocking with the history counter sendsReturned kept
NextMDSAccounting ==
    \/ ConstructBlocking
    \/ Start
    \/ Signal
    \/ MainLoop
    \/ StopStore
    \/ StopNotifyBlocking
    \/ MainExit
    \/ \E t \in {"producer", "main"} : TqPush(t)
    \/ \E t \in {"producer", "main"} : TqPushNotify(t)
    \/ TqPop
    \/ TqPopNotify
    \/ TqSpuriousWake
    \/ ProducerLoop
    \/ ProducerCount
    \/ ConsumerLoop
    \/ ConsumerRecheck
    \/ ConsumerEncode
    \/ ConsumerSendLoop
    \/ ConsumerSendCounted
    \/ ConsumerCount
    \/ MonitorLoop
    \/ MonitorPredicate
    \/ MonitorBlock
    \/ MonitorWake
    \/ MonitorTimeout
    \/ MonitorExchangeGen
    \/ MonitorExchangeSent

\* the blocking producer process with main's exit taken step by step
\* (MainExit is Destructor ... JoinThreads in one step, for tasks that have
\* all returned)
NextMDSDestroy ==
    \/ ConstructBlocking
    \/ Start
    \/ Signal
    \/ MainLoop
    \/ StopStore
    \/ StopNotifyBlocking
    \/ Destructor
    \/ DestroyCVMutex
    \/ DestroyCVMonitor
    \/ DestroyRunning
    \/ JoinThreads
    \/ UseAfterDestruction
    \/ \E t \in {"producer", "main"} : TqPush(t)
    \/ \E t \in {"producer", "main"} : TqPushNotify(t)
    \/ TqPop
    \/ TqPopNotify
    \/ TqSpuriousWake
    \/ ProducerLoop
    \/ ProducerCount
    \/ ConsumerLoop
    \/ ConsumerRecheck
    \/ ConsumerEncode
    \/ ConsumerSendLoop
    \/ ConsumerSend
    \/ ConsumerCount
    \/ MonitorLoop
    \/ MonitorPredicate
    \/ MonitorBlock
    \/ MonitorWake
    \/ MonitorTimeout
    \/ MonitorExchangeGen
    \/ MonitorExchangeSent

\* the same main with a MarketDataSystem
NextMDSLegacy ==
    \/ ConstructLegacy
    \/ Start
    \/ Signal
    \/ MainLoop
    \/ StopStore
    \/ StopNotifyBlocking
    \/ MainExit
    \/ \E t \in {"producer", "main"} : TqPush(t)
    \/ \E t \in {"producer", "main"} : TqPushNotify(t)
    \/ TqPop
    \/ TqPopNotify
    \/ TqSpuriousWake
    \/ ProducerLoop
    \/ ProducerCount
    \/ ConsumerLoop
    \/ ConsumerRecheck
    \/ ConsumerEncode
    \/ ConsumerSend
    \/ ConsumerCount
    \/ MonitorLoop
    \/ MonitorPredicate
    \/ MonitorBlock
    \/ MonitorWake
    \/ MonitorTimeout
    \/ MonitorExchangeGen
    \/ MonitorExchangeSent

NextLF ==
    \/ PushLoadWrite
    \/ PushLoadRead
    \/ PushCopy
    \/ PushStore
    \/ PopLoadRead
    \/ PopLoadWrite
    \/ PopCopy
    \/ PopStore

NextBQ ==
    \/ BPushCall
    \/ BPushLock
    \/ BPushCheck
    \/ BPushRelock
    \/ BPushWrite
    \/ BPushNotify
    \/ BPopCall
    \/ BPopLock
    \/ BPopCheck
    \/ BPopRelock
    \/ BPopRead
    \/ BPopNotify
    \/ StopCall
    \/ StopLock
    \/ StopSet
    \/ StopNotifyFull
    \/ StopNotifyEmpty
    \/ SpuriousWake

(***************************************************************************)
(* PacketCapturer::handlePacket (part_006).                                *)
(***************************************************************************)
\* the constructed capturer: userCallback_ is a default std::function
InitPcap ==
    /\ userCallback_ = "empty"
    /\ pcap_caplen = 0
    /\ pcap_byte = 0
    /\ pcap_call = <<>>
    /\ pcap_frames = 0
    /\ pcap_dropped = 0

\* "const u_char *ipPacket = packetData + 14" and
\* "size_t ethHeaderLen = (ipPacket - packetData)"
ethHeaderLen == 14

\* "size_t udpHeaderLen = 8"
udpHeaderLen == 8

\* values of the byte at packetData + 14 (version and IHL of an IPv4 header)
FirstIpBytes == {0, 5, 69, 70, 79, 255}

\* "uint8_t ipHeaderLength = (*ipPacket & 0x0F) * 4"
ipHeaderLength(byte) == (BitAnd(byte, 15) * 4) % 256

\* "size_t totalHeaderLen = ethHeaderLen + ipHeaderLength + udpHeaderLen"
totalHeaderLen(byte) == ethHeaderLen + ipHeaderLength(byte) + udpHeaderLen

\* handlePacket with the test of line 132 taken as "payloadSize >= 0"
DeliveredEmpty(caplen, byte, callback) ==
    IF caplen < totalHeaderLen(byte)
    THEN <<>>
    ELSE IF callback = "set"
         THEN <<totalHeaderLen(byte), caplen - totalHeaderLen(byte)>>
         ELSE <<>>

\* handlePacket line 125-135: a frame with caplen < totalHeaderLen is
\* logged and dropped; otherwise payloadSize = caplen - totalHeaderLen and
\* "if (userCallback_ && payloadSize > 0) userCallback_(payload, payloadSize)"
\* with payload = packetData + totalHeaderLen
Delivered(caplen, byte, callback) ==
    IF caplen < totalHeaderLen(byte)
    THEN <<>>
    ELSE IF callback = "set" /\ caplen - totalHeaderLen(byte) > 0
         THEN <<totalHeaderLen(byte), caplen - totalHeaderLen(byte)>>
         ELSE <<>>

\* startCapture(cb): "userCallback_ = std::move(cb)", then pcap_loop runs
StartCapture ==
    /\ pcap_frames = 0
    /\ userCallback_ = "empty"
    /\ userCallback_' = "set"
    /\ UNCHANGED <<pcap_caplen, pcap_byte, pcap_call, pcap_frames, pcap_dropped>>
    /\ UNCHANGED outsidePcap

\* pcap_loop hands one frame to pcapCallback, which calls handlePacket. The
\* byte at packetData + 14 is read before caplen is looked at: for a frame
\* with caplen <= 14 it lies outside the captured bytes and can hold anything
HandlePacket ==
    /\ pcap_frames < MaxFrames
    /\ \E caplen \in 0 .. MaxCaplen, byte \in FirstIpBytes :
          /\ pcap_caplen' = caplen
          /\ pcap_byte' = byte
          /\ pcap_call' = Delivered(caplen, byte, userCallback_)
          /\ pcap_dropped' = pcap_dropped
                + (IF Delivered(caplen, byte, userCallback_) = <<>> THEN 1 ELSE 0)
    /\ pcap_frames' = pcap_frames + 1
    /\ UNCHANGED userCallback_
    /\ UNCHANGED outsidePcap

NextPcap == StartCapture \/ HandlePacket

(***************************************************************************)
(* RandomWalkGenerator<PriceType> (random_walk_generator.h); prices are    *)
(* whole numbers of price units.                                           *)
(***************************************************************************)
InitRW ==
    /\ rw_state = "new"
    /\ currentPrice_ = 0
    /\ stepSize_ = 0
    /\ rw_before = 0
    /\ rw_returned = <<>>
    /\ rw_calls = 0

\* std::abs
Abs(x) == IF x < 0 THEN -x ELSE x

\* the arguments a caller can pass to the constructor
Prices == -MaxPrice .. MaxPrice

\* the constructor, line 15-21: currentPrice_{startPrice},
\* stepSize_{std::abs(stepSize)}
RWConstruct ==
    /\ rw_state = "new"
    /\ \E startPrice \in Prices, stepSize \in Prices :
          /\ currentPrice_' = startPrice
          /\ stepSize_' = Abs(stepSize)
    /\ rw_state' = "ready"
    /\ UNCHANGED <<rw_before, rw_returned, rw_calls>>
    /\ UNCHANGED outsideRW

\* getNextPrice, line 26-41: the step is stepSize_ when the random number
\* is > 0.0 and -stepSize_ otherwise; a sum that is <= 0 is replaced by
\* stepSize_
nextPrice(price, stepSize, positive) ==
    LET step == IF positive THEN stepSize ELSE -stepSize
        moved == price + step
    IN  IF moved <= 0 THEN stepSize ELSE moved

\* one call of getNextPrice; the random number is any double
GetNextPrice ==
    /\ rw_state = "ready"
    /\ rw_calls < MaxCalls
    /\ \E positive \in BOOLEAN :
          /\ currentPrice_' = nextPrice(currentPrice_, stepSize_, positive)
          /\ rw_returned' =
                 Append(rw_returned, nextPrice(currentPrice_, stepSize_, positive))
    /\ rw_before' = currentPrice_
    /\ rw_calls' = rw_calls + 1
    /\ UNCHANGED <<rw_state, stepSize_>>
    /\ UNCHANGED outsideRW

NextRW == RWConstruct \/ GetNextPrice


Init == InitLF /\ InitBQ /\ InitFIX /\ InitMDS /\ InitPcap /\ InitRW

\* one producer and one consumer on a LockFreeRingBuffer
SpecLF == Init /\ [][NextLF]_vars

\* producer and consumer on a LockFreeRingBuffer and a thread calling size()
NextLFSize ==
    \/ PushLoadWrite
    \/ PushLoadRead
    \/ PushCopy
    \/ PushStore
    \/ PopLoadRead
    \/ PopLoadWrite
    \/ PopCopy
    \/ PopStore
    \/ SizeLoadHead
    \/ SizeLoadTail

SpecLFSize == Init /\ [][NextLFSize]_vars

\* producer, consumer and stopper on a BlockingRingBuffer
SpecBQ == Init /\ [][NextBQ]_vars

\* SpecBQ with every thread that is inside a call scheduled again and again;
\* nothing forces a thread to start a call, nor a wait to wake spuriously
SpecBQLive ==
    /\ SpecBQ
    /\ WF_vars(BProducerRun)
    /\ WF_vars(BConsumerRun)
    /\ WF_vars(StopperRun)

\* run_blocking: one thread pushes, one thread pops, nobody calls stop()
NextBQRun ==
    \/ BPushCall
    \/ BPushLock
    \/ BPushCheck
    \/ BPushRelock
    \/ BPushWrite
    \/ BPushNotify
    \/ BPopCall
    \/ BPopLock
    \/ BPopCheck
    \/ BPopRelock
    \/ BPopRead
    \/ BPopNotify
    \/ SpuriousWake

\* run_blocking under a scheduler that keeps running both threads (each loop
\* iteration starts its call) and a mutex that a thread asking for it again
\* and again eventually gets; a wait is never forced to wake spuriously
SpecBQRun ==
    /\ Init
    /\ [][NextBQRun]_vars
    /\ WF_vars(BPushCall)
    /\ SF_vars(BPushLock)
    /\ WF_vars(BPushCheck)
    /\ SF_vars(BPushRelock)
    /\ WF_vars(BPushWrite)
    /\ WF_vars(BPushNotify)
    /\ WF_vars(BPopCall)
    /\ SF_vars(BPopLock)
    /\ WF_vars(BPopCheck)
    /\ SF_vars(BPopRelock)
    /\ WF_vars(BPopRead)
    /\ WF_vars(BPopNotify)

\* a producer process with a blocking orchestrator
SpecMDSBlocking == Init /\ [][NextMDSBlocking]_vars

\* the producer process with MarketDataSystemGBM, the sends that returned counted
SpecMDSAccounting == Init /\ [][NextMDSAccounting]_vars

\* a blocking producer process with main's exit taken step by step
SpecMDSDestroy == Init /\ [][NextMDSDestroy]_vars

\* a producer process with a MarketDataSystem
SpecMDSLegacy == Init /\ [][NextMDSLegacy]_vars

\* the blocking producer process under a scheduler that keeps running every
\* thread that can take a step; no signal is ever forced to arrive, no wait
\* is forced to wake spuriously, no send is forced to succeed (a step of
\* the process changes no variable outside mdsVars)
SpecMDSBlockingLive ==
    /\ SpecMDSBlocking
    /\ WF_mdsVars(MainRunBlocking)
    /\ WF_mdsVars(ProducerRunBlocking)
    /\ WF_mdsVars(ConsumerRunBlocking)
    /\ WF_mdsVars(MonitorRun)

\* a producer process with a lock-free orchestrator
SpecMDSLockFree == Init /\ [][NextMDSLockFree]_vars

\* the lock-free producer process under a scheduler that keeps running every
\* thread; no signal is forced to arrive and no send is forced to succeed
SpecMDSLockFreeLive ==
    /\ SpecMDSLockFree
    /\ WF_mdsVars(MainRunLockFree)
    /\ WF_mdsVars(ProducerRunLockFree)
    /\ WF_mdsVars(ConsumerRunLockFree)
    /\ WF_mdsVars(MonitorRun)

\* one FIXMessage used by one caller
SpecFIX == Init /\ [][NextFIX]_vars

\* one PacketCapturer and the frames pcap_loop hands to it
SpecPcap == Init /\ [][NextPcap]_vars

\* one RandomWalkGenerator and its caller
SpecRW == Init /\ [][NextRW]_vars

\* run_nonblocking: the producer spins on push for each of RunItems items,
\* the consumer spins on pop until it has RunItems items
NextLFRun ==
    \/ SpinPushLoadWrite
    \/ SpinPushLoadRead
    \/ PushCopy
    \/ PushStore
    \/ SpinPopLoadRead
    \/ SpinPopLoadWrite
    \/ PopCopy
    \/ PopStore

\* run_nonblocking under a scheduler that keeps running both threads
SpecLFRun ==
    /\ Init
    /\ [][NextLFRun]_vars
    /\ WF_vars(SpinProducerStep)
    /\ WF_vars(SpinConsumerStep)

(***************************************************************************)
(* Properties of the lock-free queue.                                      *)
(***************************************************************************)
\* occupancy as the code computes it (size()): writeIndex_ - readIndex_ in size_t
Occupancy == Wrap(lf_writeIndex_ - lf_readIndex_)

\* items accepted by push and not yet handed out by a completed pop
Outstanding == Len(accepted) - Len(returned)

\* slot that holds the k-th accepted item (the cursor of the k-th push is k - 1)
SlotOfAccepted(k) == SlotOf(Wrap(k - 1))

\* C1: FIFO of the lock-free queue. In every reachable state the items returned
\* by the successful pops are, in order, the items of the first successful
\* pushes: same order, nothing duplicated, nothing that was never accepted.
LFFifoPrefix ==
    /\ Len(returned) <= Len(accepted)
    /\ \A i \in 1 .. Len(returned) : returned[i] = Item(accepted[i])

\* C1 witness: more items than the queue has slots went through it (slots were
\* reused), and at least one push was rejected because the queue was full.
LFFifoWitness ==
    /\ Len(returned) > Capacity
    /\ pushFalse >= 1

\* C4: capacity ceiling of the lock-free queue. writeIndex_ - readIndex_
\* (size_t arithmetic) is always in [0, Capacity], and so is the number of
\* accepted items not yet popped: push never runs more than Capacity ahead of
\* pop and pop never passes push.
LFCapacityCeiling ==
    /\ Occupancy \in 0 .. Capacity
    /\ Outstanding \in 0 .. Capacity
    /\ Occupancy = Outstanding

\* C4 witness: the queue is full after the cursors have wrapped past slot 0.
LFCapacityWitness ==
    /\ Occupancy = Capacity
    /\ Len(returned) >= 1

\* C7: results without concurrency. A push that decides while no pop is in
\* flight succeeds iff occupancy < Capacity, a pop that decides while no push is
\* in flight succeeds iff occupancy > 0; and as long as pop has never been
\* called, exactly the first Capacity pushes are accepted and the later ones
\* are rejected.
LFSequentialResults ==
    /\ [](  (popCalls = 0 /\ ppc = "idle")
            => /\ Len(accepted) = (IF pushCalls <= Capacity THEN pushCalls ELSE Capacity)
               /\ pushFalse = pushCalls - Len(accepted)
               /\ (pushCalls > Capacity => pResult = "false")
               /\ (pushCalls \in 1 .. Capacity => pResult = "true"))
    /\ [][ /\ (ppc = "loadRead" /\ ppc' # ppc /\ cpc = "idle")
              => IF Occupancy < Capacity
                 THEN ppc' = "copy"
                 ELSE ppc' = "idle" /\ pResult' = "false"
           /\ (ppc \in {"copy", "store"} /\ ppc' = "idle") => pResult' = "true"
           /\ (cpc = "loadWrite" /\ cpc' # cpc /\ ppc = "idle")
              => IF Occupancy > 0
                 THEN cpc' = "copy"
                 ELSE cpc' = "idle" /\ cResult' = "false"
           /\ (cpc \in {"copy", "store"} /\ cpc' = "idle") => cResult' = "true"
         ]_vars

\* C7 witness: the example scenario. Capacity pushes accepted, the next one
\* rejected, one pop, and then the following push accepted.
LFSequentialWitness ==
    /\ pushCalls = Capacity + 2
    /\ popCalls = 1
    /\ Len(returned) = 1
    /\ accepted = [i \in 1 .. Capacity + 1 |->
                      IF i <= Capacity THEN i ELSE Capacity + 2]
    /\ pushFalse = 1
    /\ ppc = "idle" /\ pResult = "true"
    /\ cpc = "idle"

\* C8: push and pop never block. Whatever the other thread is doing (also when
\* it is stopped in the middle of its own call), a call in flight can always
\* take its next step, and a call takes at most 3 + NumFields steps: two
\* loads, the copy of the item, one store.
LFNeverBlocks ==
    /\ ppc # "idle" => ENABLED ProducerStep
    /\ cpc # "idle" => ENABLED ConsumerStep
    /\ pSteps <= 3 + NumFields
    /\ cSteps <= 3 + NumFields

\* C8 witness: a push found the queue full and returned false while the consumer
\* was stopped in the middle of a pop.
LFNeverBlocksWitness ==
    /\ ppc = "idle" /\ pResult = "false" /\ pSteps = 2
    /\ cpc = "copy"
    /\ Occupancy = Capacity

\* C9: push accounting. A push returns true having stored the item in the slot
\* of the old write cursor and advanced writeIndex_ by exactly one; a push that
\* returns false changed no cursor and no slot; so accepted + rejected =
\* attempts, and never more items are popped than were accepted. A pop that
\* returns false changed no cursor, no slot and not the caller's variable.
LFAccounting ==
    /\ [](/\ ppc = "idle" => Len(accepted) + pushFalse = pushCalls
          /\ cpc = "idle" => Len(returned) + popFalse = popCalls
          /\ Len(returned) <= Len(accepted))
    /\ [][ /\ (ppc # "idle" /\ ppc' = "idle" /\ pResult' = "true")
              => /\ lf_writeIndex_' = Wrap(lf_writeIndex_ + 1)
                 /\ lf_readIndex_' = lf_readIndex_
                 /\ lf_buffer_'[SlotOf(lf_writeIndex_)] = pItem
                 /\ Len(accepted') = Len(accepted) + 1
           /\ (ppc \in {"idle", "loadRead"} /\ pSteps' # pSteps)
              => UNCHANGED lfShared
           /\ (ppc # "idle" /\ ppc' = "idle" /\ pResult' = "false")
              => /\ ppc = "loadRead"
                 /\ UNCHANGED <<lfShared, accepted>>
                 /\ pushFalse' = pushFalse + 1
           /\ (cpc \in {"idle", "loadWrite"} /\ cSteps' # cSteps)
              => UNCHANGED <<lfShared, cValue>>
           /\ (cpc # "idle" /\ cpc' = "idle" /\ cResult' = "false")
              => /\ cpc = "loadWrite"
                 /\ UNCHANGED <<lfShared, cValue, returned>>
         ]_vars

\* C9 witness: pushes were rejected and accepted, and a pop failed on the empty
\* queue after an earlier pop had filled the caller's variable.
LFAccountingWitness ==
    /\ pushFalse >= 1
    /\ Len(accepted) >= 2
    /\ cpc = "idle" /\ cResult = "false"
    /\ Len(returned) >= 1
    /\ cValue # Item(0)

\* C10: slot hand-off, the copy of an item being several steps. While the
\* producer copies into a slot, that slot holds no accepted item that the
\* consumer has not finished popping (so it is not the slot being read); every
\* accepted, not yet popped item sits complete in its slot; and what a pop in
\* flight has copied out so far is the matching pushed item.
LFSlotHandOff ==
    /\ (ppc = "copy" /\ cpc = "copy") => SlotOf(pCurrentWrite) # SlotOf(cCurrentRead)
    /\ ppc = "copy"
       => \A k \in Len(returned) + 1 .. Len(accepted) :
             SlotOfAccepted(k) # SlotOf(pCurrentWrite)
    /\ \A k \in Len(returned) + 1 .. Len(accepted) :
          lf_buffer_[SlotOfAccepted(k)] = Item(accepted[k])
    /\ cpc \in {"copy", "store"}
       => /\ Len(accepted) > Len(returned)
          /\ SlotOf(cCurrentRead) = SlotOfAccepted(Len(returned) + 1)
          /\ \A f \in Fields :
                (cpc = "store" \/ f < cField)
                => cValue[f] = accepted[Len(returned) + 1]
    /\ \A i \in 1 .. Len(returned) : Untorn(returned[i])

\* C10 witness: producer and consumer are both half way through a copy, on
\* different slots, after every slot has been used at least once.
LFSlotHandOffWitness ==
    /\ ppc = "copy" /\ pField = NumFields
    /\ cpc = "copy" /\ cField = NumFields
    /\ Len(accepted) >= Capacity

(***************************************************************************)
(* Properties of the blocking queue.                                       *)
(***************************************************************************)
\* slot of the k-th item waiting in the queue (k = 1 is the next one popped)
BQSlot(k) == (bq_readIndex_ + k - 1) % BQCapacity

\* C2: no data loss in the blocking queue. As long as stop() is not called:
\* the values popped are, in order, the first values pushed; every value pushed
\* and not yet popped is still in its slot (nothing is dropped or overwritten);
\* so when N pushes and N pops have returned the pops returned exactly the N
\* pushed items in push order.
BQNoDataLoss ==
    stopCalls = 0
    => /\ Len(bqPopped) <= Len(bqPushed)
       /\ \A i \in 1 .. Len(bqPushed) : bqPushed[i] = i
       /\ \A i \in 1 .. Len(bqPopped) : bqPopped[i] = bqPushed[i]
       /\ bq_count_ = Len(bqPushed) - Len(bqPopped)
       /\ \A k \in 1 .. bq_count_ :
             bq_buffer_[BQSlot(k)] = bqPushed[Len(bqPopped) + k]
       /\ (bpc = "idle" /\ bcpc = "idle" /\ bPushDone = bPopDone)
          => /\ bqPopped = bqPushed
             /\ Len(bqPopped) = bPushDone

\* C2 witness: MaxOps pushes and MaxOps pops (more than the queue has slots)
\* have all returned and stop() was never called.
BQNoDataLossWitness ==
    /\ stopCalls = 0
    /\ bPushDone = MaxOps
    /\ bPopDone = MaxOps
    /\ MaxOps > BQCapacity

\* C3: capacity ceiling of the blocking queue, as claimed: count_ is in
\* [0, Capacity] in every reachable state, under any interleaving of push, pop
\* and stop().
BQCapacityCeiling == bq_count_ \in 0 .. BQCapacity

\* C5: shutdown liveness of the blocking queue. Once stop() has set stopped_, a
\* task blocked in push (queue full) or in pop (queue empty) is woken and its
\* call returns; once a stop() call has returned no task is blocked on
\* notFullCv_ or notEmptyCv_, and every call in flight returns.
BQShutdownLiveness ==
    /\ (stopped_ /\ bpc = "wait") ~> (bpc = "idle")
    /\ (stopped_ /\ bcpc = "wait") ~> (bcpc = "idle")
    /\ [](stopsDone >= 1 => notFullCv_ = {} /\ notEmptyCv_ = {})
    /\ (stopsDone >= 1) ~> (bpc = "idle")
    /\ (stopsDone >= 1) ~> (bcpc = "idle")

\* C5 witness: stop() has set stopped_ and is about to notify, while the
\* producer is blocked in push on the full queue.
BQShutdownWitness ==
    /\ spc = "notifyFull"
    /\ "producer" \in notFullCv_
    /\ bq_count_ = BQCapacity

\* C6: backpressure of the blocking queue. While stopped_ is not set: no step
\* writes a slot, moves writeIndex_ or raises count_ when count_ = Capacity, and
\* no step moves readIndex_, writes the caller's variable or lowers count_ when
\* count_ = 0; push is past its wait only with count_ < Capacity, pop only with
\* count_ > 0; and a thread inside a wait does not own mtx_.
BQBackpressure ==
    /\ [](/\ (~stopped_ /\ bpc = "write") => bq_count_ < BQCapacity
          /\ (~stopped_ /\ bcpc = "read") => bq_count_ > 0
          /\ bpc = "wait" => mtx_ # "producer"
          /\ bcpc = "wait" => mtx_ # "consumer")
    /\ [][ ~stopped_
           => /\ bq_count_ = BQCapacity
                 => /\ bq_buffer_' = bq_buffer_
                    /\ bq_writeIndex_' = bq_writeIndex_
                    /\ bq_count_' <= bq_count_
                    /\ bqPushed' = bqPushed
              /\ bq_count_ = 0
                 => /\ bq_readIndex_' = bq_readIndex_
                    /\ bOut' = bOut
                    /\ bq_count_' >= bq_count_
                    /\ bqPopped' = bqPopped
         ]_vars

\* C6 witness: the producer is blocked in push on the full queue, stop() was
\* never called, and the consumer owns the mutex the producer released.
BQBackpressureWitness ==
    /\ "producer" \in notFullCv_
    /\ bpc = "wait"
    /\ bq_count_ = BQCapacity
    /\ stopCalls = 0
    /\ mtx_ = "consumer"

\* C17: when one thread performs MaxOps pushes and the other MaxOps pops on
\* the same BlockingRingBuffer and stop() is never called, both threads
\* finish: every push call and every pop call eventually returns
BQRunTerminates ==
    <>(/\ bPushDone = MaxOps
       /\ bPopDone = MaxOps
       /\ bpc = "idle"
       /\ bcpc = "idle")

\* the producer is blocked in notFullCv_.wait on a full queue while the consumer
\* has taken an item and is about to call notify_one
BQRunWitness ==
    /\ stopCalls = 0
    /\ "producer" \in notFullCv_
    /\ bpc = "wait"
    /\ bcpc = "notify"

\* C18: when the producer retries push until each of RunItems items is taken
\* and the consumer retries pop until it has RunItems items, both loops end:
\* eventually both threads are outside push/pop with RunItems successes each
LFRunTerminates ==
    <>(/\ Len(accepted) = RunItems
       /\ Len(returned) = RunItems
       /\ ppc = "idle"
       /\ cpc = "idle")

\* the producer has just been refused on a full queue while the consumer,
\* which earlier found the queue empty, is inside a pop that will succeed
LFRunWitness ==
    /\ pResult = "false"
    /\ ppc = "idle"
    /\ Occupancy = Capacity
    /\ cResult = "false"
    /\ cpc = "copy"
    /\ Len(accepted) < RunItems

\* the bytes are the decimal digits of n without sign or leading zero
RECURSIVE ParseNat(_)
ParseNat(digits) ==
    IF digits = <<>> THEN 0
    ELSE 10 * ParseNat(SubSeq(digits, 1, Len(digits) - 1))
         + (digits[Len(digits)] - Ascii("0"))

\* every byte is a decimal digit
AllDigits(bytes) ==
    /\ bytes # <<>>
    /\ \A i \in 1 .. Len(bytes) : bytes[i] \in Ascii("0") .. Ascii("9")

\* bytes is the decimal text of the integer n
IsDecimalOf(bytes, n) ==
    IF n < 0
    THEN /\ Len(bytes) >= 2
         /\ bytes[1] = Ascii("-")
         /\ AllDigits(Tail(bytes))
         /\ bytes[2] # Ascii("0")
         /\ ParseNat(Tail(bytes)) = 0 - n
    ELSE /\ AllDigits(bytes)
         /\ (Len(bytes) > 1 => bytes[1] # Ascii("0"))
         /\ ParseNat(bytes) = n

\* bytes is tag=value<SOH> for each field, in order, and nothing else
RECURSIVE IsBodyOf(_, _)
IsBodyOf(bytes, fields) ==
    IF fields = <<>> THEN bytes = <<>>
    ELSE LET tag == fields[1][1]
             value == fields[1][2]
         IN  \E d \in 1 .. Len(bytes) :
                LET end == d + 1 + Len(value) + 1
                IN  /\ end <= Len(bytes)
                    /\ IsDecimalOf(SubSeq(bytes, 1, d), tag)
                    /\ bytes[d + 1] = Ascii("=")
                    /\ SubSeq(bytes, d + 2, end - 1) = value
                    /\ bytes[end] = SOH
                    /\ IsBodyOf(SubSeq(bytes, end + 1, Len(bytes)), Tail(fields))

\* message is 8=<beginString><SOH>9=<n><SOH><body>10=<ccc><SOH> for the fields
IsFrameOf(message, fields) ==
    LET prefix == <<Ascii("8"), Ascii("=")>> \o beginString_
                  \o <<SOH, Ascii("9"), Ascii("=")>>
        total == Len(message)
        trailer == 7        \* 10=ccc<SOH>
    IN  /\ total >= Len(prefix) + 2 + trailer
        /\ SubSeq(message, 1, Len(prefix)) = prefix
        /\ \E k \in 1 .. total - Len(prefix) - trailer - 1 :
              LET lengthText == SubSeq(message, Len(prefix) + 1, Len(prefix) + k)
                  bodyStart == Len(prefix) + k + 2
                  body == SubSeq(message, bodyStart, total - trailer)
                  ccc == SubSeq(message, total - 3, total - 1)
              IN  /\ message[Len(prefix) + k + 1] = SOH
                  /\ IsDecimalOf(lengthText, Len(body))
                  /\ IsBodyOf(body, fields)
                  /\ SubSeq(message, total - 6, total - 4)
                        = <<Ascii("1"), Ascii("0"), Ascii("=")>>
                  /\ AllDigits(ccc)
                  /\ ParseNat(ccc)
                        = Accumulate(SubSeq(message, 1, total - trailer)) % CheckSumMod
                  /\ message[total] = SOH

\* C20: what finalize() returns is 8=<beginString><SOH>9=<n><SOH><body>10=<ccc><SOH>
\* where <body> is tag=value<SOH> for the added fields in call order, n is the
\* byte length of <body>, and ccc is three decimal digits whose value is the sum
\* of all bytes before the 10= field, mod 256
FIXFraming ==
    fix_lastOp = "finalize" => IsFrameOf(fix_finalMessageBuffer_, fix_fields)

\* finalize has returned a message of two fields whose body length has two
\* digits and whose checksum needs a padding zero
FIXFramingWitness ==
    /\ fix_lastOp = "finalize"
    /\ Len(fix_fields) = 2
    /\ Len(fix_bodyBuffer_) >= 10
    /\ fix_finalMessageBuffer_[Len(fix_finalMessageBuffer_) - 3] = Ascii("0")

(***************************************************************************)
(* Properties of the producer process with a blocking orchestrator.        *)
(***************************************************************************)
\* C11: after stop() is called on a started MarketDataSystemGBM /
\* MarketDataSystemRW, the producer, consumer and monitor tasks all
\* eventually return, whatever the queue holds at the time of the call
MDSBlockingShutdown ==
    (alive /\ mds_kind = "GBM" /\ mds_pc["main"] = "stopStore")
        ~> (\A t \in Tasks : mds_pc[t] = "done")

\* C13: the sentinel tick is never encoded (nor passed to the sender), and a
\* consumer of MarketDataSystemGBM / MarketDataSystemRW that is blocked in pop
\* on an empty queue when stop() is called eventually leaves its loop
MDSSentinelWake ==
    /\ []("dummy" \notin encoded)
    /\ (/\ alive
        /\ mds_kind = "GBM"
        /\ mds_pc["main"] = "stopStore"
        /\ mds_pc["consumer"] = "popWait"
        /\ tq_count_ = 0)
          ~> (mds_pc["consumer"] = "done")

\* the consumer has popped the sentinel that stop() enqueued and has returned
\* without encoding it
MDSSentinelWitness ==
    /\ mds_kind = "GBM"
    /\ tick = "dummy"
    /\ mds_pc["consumer"] = "done"
    /\ mds_pc["main"] \in {"stopped", "exited"}
    /\ "dummy" \notin encoded

\* C14: at most one thread ever calls push and at most one thread ever calls
\* pop on the orchestrator's queue
MDSSingleWriterReader ==
    /\ Cardinality(pushers) <= 1
    /\ Cardinality(poppers) <= 1

\* C15: a message that the sender refused with a transient failure is retried
\* while running_ is set (the consumer stays in its send loop, pops nothing
\* and skips nothing), and the failure never terminates the consumer task
MDSSendRetry ==
    /\ mds_pc["consumer"] # "terminated"
    /\ (alive /\ unsent /\ running_) => mds_pc["consumer"] \in {"sendLoop", "send"}

\* C16: when creating the network sender fails, construction fails and no
\* producer, consumer or monitor task is ever started
MDSConstructionAborts ==
    sender_ = "null" => \A t \in Tasks : mds_pc[t] = "unborn"

\* C19: after a signal is delivered to a running producer process, main calls
\* stop() and stop() returns
MDSSignalExit ==
    (signal # "none") ~> (mds_pc["main"] \in {"stopped", "exited"})

(***************************************************************************)
(* Properties of the producer process with a lock-free orchestrator.       *)
(***************************************************************************)
\* C12: after stop() is called on a started MarketDataSystemNonBlocking /
\* MarketDataSystemRWNonBlocking, the producer (also when it is retrying a
\* refused push), the consumer (also when it polls an empty queue or retries
\* a refused send) and the monitor all eventually return; and no sentinel is
\* ever enqueued: only the producer task pushes, and only its ticks
MDSLockFreeShutdown ==
    /\ [](/\ mds_pc["main"] \notin {"push", "pushWait"}
          /\ \A i \in 0 .. TickCapacity - 1 : lq_buffer_[i] # "dummy")
    /\ (mds_kind \in LockFreeKinds /\ mds_pc["main"] = "stopStore")
          ~> (\A t \in Tasks : mds_pc[t] = "done")

\* stop() has returned and all three tasks are gone; the producer gave up a
\* push that the full queue kept refusing, the consumer a send that kept failing
MDSLockFreeShutdownWitness ==
    /\ mds_kind = "RWNonBlocking"
    /\ mds_pc["main"] = "exited"
    /\ \A t \in Tasks : mds_pc[t] = "done"
    /\ unsent
    /\ made > lq_writeIndex_

BQIndexInvariant ==
    /\ [](/\ bq_writeIndex_ \in 0 .. BQCapacity - 1
          /\ bq_readIndex_ \in 0 .. BQCapacity - 1
          /\ (bq_count_ - (bq_writeIndex_ - bq_readIndex_)) % BQCapacity = 0)
    /\ [][ (bpc = "write" /\ bpc' = "notify")
           => /\ bq_writeIndex_' = (bq_writeIndex_ + 1) % BQCapacity
              /\ bq_readIndex_' = bq_readIndex_ ]_vars
    /\ [][ (bcpc = "read" /\ bcpc' = "notify")
           => /\ bq_readIndex_' = (bq_readIndex_ + 1) % BQCapacity
              /\ bq_writeIndex_' = bq_writeIndex_ ]_vars

(***************************************************************************)
(* Further properties of the lock-free queue.                              *)
(***************************************************************************)
\* a step of the producer thread inside push, of the consumer thread inside pop
LFPushStep == pSteps' # pSteps
LFPopStep == cSteps' # cSteps

LFSizeBound == size_result \in 0 .. Capacity

(***************************************************************************)
(* Further properties of the producer process.                             *)
(***************************************************************************)
\* C25, as claimed: every tick of the producer task that the consumer task
\* has popped is encoded and handed to the sender: the consumer never leaves
\* the test after pop with a producer tick without encoding it, and never
\* leaves the send loop with a message that no send call has taken, also
\* around a concurrent stop()
MDSPoppedConsumed ==
    [][ alive'
        => /\ (mds_pc["consumer"] = "recheck" /\ tick = "tick"
                  /\ mds_pc'["consumer"] # "recheck")
              => mds_pc'["consumer"] = "encode"
           /\ (mds_pc["consumer"] = "sendLoop" /\ mds_pc'["consumer"] = "count")
              => sent
      ]_vars

\* C26, as claimed: in the lock-free orchestrators a tick whose push is
\* refused by the full queue is pushed again until the push succeeds or the
\* producer sees running_ cleared, and ticksGenerated_ is incremented once,
\* by the producer, after each push that succeeded
MDSProducerRetries ==
    [][ (alive' /\ mds_kind \in LockFreeKinds)
        => /\ (mds_pc["producer"] = "loadRead"
                  /\ mds_pc'["producer"] \notin {"loadRead", "copy"})
              => mds_pc'["producer"] = "retry"
           /\ (mds_pc["producer"] = "retry" /\ mds_pc'["producer"] # "retry")
              => mds_pc'["producer"] = (IF running_ THEN "loadRead" ELSE "done")
           /\ (mds_pc["producer"] = "store" /\ mds_pc'["producer"] # "store")
              => mds_pc'["producer"] = "count"
           /\ ticksGenerated_' > ticksGenerated_
              => /\ mds_pc["producer"] = "count"
                 /\ mds_pc'["producer"] = "check"
                 /\ ticksGenerated_' = ticksGenerated_ + 1
      ]_vars

\* C27, as claimed: the notify_all of stop() is never missed by the monitor:
\* once stop() has stored running_ = false and notified CVMonitor_, the
\* monitor task is not blocked in wait_for and not about to block, so it
\* never needs the time-out to leave
MDSMonitorEarlyWake ==
    (alive /\ ~running_ /\ mds_pc["main"] # "stopNotify")
        => (mds_pc["monitor"] # "block" /\ "monitor" \notin CVMonitor_)

\* C28: metrics conservation. For ticksGenerated_ and for ticksSent_, in
\* every state of every interleaving of the fetch_add calls with the
\* monitor's exchange(0) calls, the values the monitor has reported so far
\* plus the counter's current value add up to the number of fetch_add calls
MDSMetricsConservation ==
    /\ genReported + ticksGenerated_ = genTotal
    /\ sentReported + ticksSent_ = sentTotal

\* C28 witness: the monitor has reported a non-zero generated count and a
\* non-zero sent count, and both counters have been incremented again since
MDSMetricsWitness ==
    /\ alive
    /\ genReported >= 1 /\ ticksGenerated_ >= 1
    /\ sentReported >= 1 /\ ticksSent_ >= 1

\* the step in which consumerThread's call of send comes back
ConsumerSendStep == mds_pc["consumer"] = "send" /\ sendto' # "none"

\* C29: UDPMulticastSender::send raises an error to its caller exactly when
\* ::sendto reports a full buffer (ENOBUFS / EAGAIN / EWOULDBLOCK). After a
\* short send or any other sendto failure the call returns: the message
\* counts as sent, the process stays alive, and the consumer leaves the
\* send loop for the count and the next tick without calling send again
\* for that message.
MDSSendOutcomes ==
    [][/\ ConsumerSendStep
           => /\ unsent' <=> sendto' \in BufferFull
              /\ sendto' \notin BufferFull
                    => sent' /\ alive' /\ mds_pc'["consumer"] \in {"sendLoop", "count"}
       /\ (/\ mds_pc["consumer"] = "sendLoop"
           /\ sendto \in {"partial", "EPERM"}
           /\ mds_pc'["consumer"] # "sendLoop"
           /\ alive')
           => mds_pc'["consumer"] = "count"]_vars

\* a short send has returned after an earlier message was counted
MDSSendOutcomesWitness ==
    /\ alive
    /\ sendto = "partial"
    /\ sent
    /\ mds_pc["consumer"] = "sendLoop"
    /\ sentTotal >= 1

\* the members a task uses while it runs
Members(t) ==
    CASE t = "producer" -> {"running_", "SPSCTickQueue_", "ticksGenerated_"}
      [] t = "consumer" -> {"running_", "SPSCTickQueue_", "sender_", "ticksSent_"}
      [] t = "monitor" ->
             {"running_", "CVMutex_", "CVMonitor_", "ticksGenerated_", "ticksSent_"}

\* C30: when the orchestrator is destroyed, every task has returned before
\* the destruction of any member it uses begins: no task that has not
\* returned still has running_, CVMutex_, CVMonitor_ or the queue to touch
\* once that member is being torn down.
MDSDestructionSafe ==
    \A t \in Tasks :
        (alive /\ Members(t) \cap Torn # {}) => mds_pc[t] \in {"done", "unborn"}

(***************************************************************************)
(* Properties of the packet capturer.                                      *)
(***************************************************************************)
\* C31: handlePacket calls the user callback exactly when caplen is greater
\* than 14 + 4 * (low four bits of the byte at offset 14) + 8, and then with
\* the pointer at that offset and the length caplen minus that offset; a
\* frame whose caplen is below the computed header length is not delivered;
\* and this holds for every frame whatever frames were handled before it.
PcapPayloadExtraction ==
    (userCallback_ = "set" /\ pcap_frames > 0)
        => LET header == 14 + 4 * (pcap_byte % 16) + 8
           IN  /\ pcap_call # <<>> <=> pcap_caplen > header
               /\ pcap_call # <<>> => pcap_call = <<header, pcap_caplen - header>>
               /\ pcap_caplen < header => pcap_call = <<>>

\* a frame is delivered after a truncated frame was dropped
PcapPayloadWitness ==
    /\ userCallback_ = "set"
    /\ pcap_frames = 2
    /\ pcap_dropped = 1
    /\ pcap_call = <<42, 1>>

(***************************************************************************)
(* Properties of the random-walk price generator.                          *)
(***************************************************************************)
\* C32: whatever start price and step size the constructor was given, every
\* price getNextPrice returns is strictly positive, and each call moves the
\* price by exactly +|stepSize| or -|stepSize|, except that a result that
\* would be <= 0 is replaced by |stepSize|.
RWPricePositive ==
    /\ \A i \in 1 .. Len(rw_returned) : rw_returned[i] > 0
    /\ rw_calls > 0
          => \/ currentPrice_ = rw_before + stepSize_
             \/ currentPrice_ = rw_before - stepSize_
             \/ /\ currentPrice_ = stepSize_
                /\ rw_before - stepSize_ <= 0

(***************************************************************************)
(* Wrap-around of the lock-free queue's cursors.                           *)
(***************************************************************************)
\* C33: the cursors are the numbers of completed pushes and pops modulo 2^w.
\* Also after either cursor has wrapped past 2^w - 1, push's full test
\* (nextWrite - currentRead > Capacity) is true exactly when Capacity items
\* are in the queue, pop's empty test (currentRead == currentWrite) exactly
\* when none is, the slot index cursor & (Capacity - 1) is the count modulo
\* Capacity, no more than Capacity items are in the queue, and the pops
\* return the accepted items in order.
LFWrapAround ==
    /\ lf_writeIndex_ = Len(accepted) % SizeMod
    /\ lf_readIndex_ = Len(returned) % SizeMod
    /\ Outstanding \in 0 .. Capacity
    /\ ((((lf_writeIndex_ + 1) % SizeMod) - lf_readIndex_) % SizeMod > Capacity)
          <=> Outstanding = Capacity
    /\ (lf_readIndex_ = lf_writeIndex_) <=> Outstanding = 0
    /\ BitAnd(lf_writeIndex_, Capacity - 1) = Len(accepted) % Capacity
    /\ BitAnd(lf_readIndex_, Capacity - 1) = Len(returned) % Capacity
    /\ \A i \in 1 .. Len(returned) : returned[i] = Item(accepted[i])

\* the write cursor has wrapped and is numerically below the read cursor, the
\* queue is full, and a push was refused in that state
LFWrapAroundWitness ==
    /\ Len(accepted) >= SizeMod
    /\ lf_writeIndex_ < lf_readIndex_
    /\ Outstanding = Capacity
    /\ ppc = "idle"
    /\ pResult = "false"
    /\ pCurrentWrite = lf_writeIndex_
    /\ pCurrentRead = lf_readIndex_


(***************************************************************************)
(* The blocking queue: a pop released by stop(), and stop() itself.        *)
(***************************************************************************)
\* the values the consumer has been handed so far, and the initial slot value
StaleValues == {0} \cup {bqPopped[i] : i \in 1 .. Len(bqPopped)}

BQStopIdempotent ==
    /\ [](stopsDone >= 1 => stopped_)
    /\ [][ stopped_ => stopped_' ]_vars
    /\ [][ stopped_ => /\ (bpc' = "wait" => bpc = "wait")
                       /\ (bcpc' = "wait" => bcpc = "wait")
                       /\ notFullCv_' \subseteq notFullCv_
                       /\ notEmptyCv_' \subseteq notEmptyCv_ ]_vars
    /\ [][ (stopped_ /\ bpc = "check" /\ bpc' # bpc) => bpc' = "write" ]_vars
    /\ [][ (stopped_ /\ bcpc = "check" /\ bcpc' # bcpc) => bcpc' = "read" ]_vars
    /\ [][ (spc' # spc) => bqShared' = bqShared ]_vars
    /\ [][ (spc' # spc /\ stopsDone >= 1) => stopped_' = stopped_ ]_vars

\* C35 witness: stop() has returned twice, and a push that never blocked has
\* gone through on the full queue
BQStopIdempotentWitness ==
    /\ stopsDone = 2
    /\ stopped_
    /\ spc = "idle"
    /\ bpc = "notify"
    /\ ~bWaited
    /\ bq_count_ = BQCapacity + 1


(***************************************************************************)
(* The lock-free queue: what a false result says about the queue.          *)
(***************************************************************************)
\* C36: with one producer and one consumer running concurrently, the step in
\* which push loads the read cursor ends the call with false only if exactly
\* Capacity items are outstanding in that step's state, and the step in which
\* pop loads the write cursor ends the call with false only if none is; a push
\* is accepted only with fewer than Capacity items outstanding and a pop hands
\* an item over only with at least one outstanding
LFConservativeFailure ==
    /\ [][ (pushFalse' # pushFalse)
           => /\ ppc = "loadRead"
              /\ Occupancy = Capacity
              /\ Outstanding = Capacity ]_vars
    /\ [][ (popFalse' # popFalse)
           => /\ cpc = "loadWrite"
              /\ Occupancy = 0
              /\ Outstanding = 0 ]_vars
    /\ [][ (accepted' # accepted) => Outstanding < Capacity ]_vars
    /\ [][ (returned' # returned) => Outstanding > 0 ]_vars

\* C36 witness: a push has come back false, and by then the consumer has taken
\* an item, so the read cursor the push loaded is stale and there is room
LFConservativeFailureWitness ==
    /\ ppc = "idle"
    /\ pResult = "false"
    /\ pushFalse >= 1
    /\ pCurrentRead # lf_readIndex_
    /\ Outstanding < Capacity


(***************************************************************************)
(* The orchestrators with the retry loop: what ticksSent_ counts.          *)
(***************************************************************************)
\* C37: in an orchestrator with the send retry loop, the loop of a tick ends
\* when a send has returned or running_ is clear, ticksSent_ is then
\* incremented once, also when no send of the tick has returned; the
\* increments exceed the sends that returned by at most one, and only once
\* running_ is clear and the consumer is on its way out; without a sender
\* ticksSent_ is never incremented
MDSSentAccounting ==
    /\ [][ (At("consumer", "sendLoop") /\ mds_pc'["consumer"] # "sendLoop" /\ alive')
           => /\ mds_pc'["consumer"] = "count" <=> (sent \/ ~running_)
              /\ mds_pc'["consumer"] = "send" <=> (~sent /\ running_) ]_vars
    /\ [][ (At("consumer", "count") /\ mds_pc'["consumer"] # "count" /\ alive')
           => /\ sentTotal' = sentTotal + 1
              /\ ticksSent_' = ticksSent_ + 1
              /\ mds_pc'["consumer"] = "check" ]_vars
    /\ [][ (sentTotal' # sentTotal /\ alive') => At("consumer", "count") ]_vars
    /\ [](mds_kind # "Legacy" =>
            /\ sentTotal <= sendsReturned + 1
            /\ sendsReturned <= sentTotal + 1
            /\ sentTotal > sendsReturned
                  => ~running_ /\ mds_pc["consumer"] \in {"check", "done"}
            /\ sender_ # "ok" => sentTotal = 0 /\ ticksSent_ = 0)

\* C37 witness: every send of the last tick was refused, running_ was
\* cleared, the retry loop ended and the tick was counted: one more
\* increment than sends that returned
MDSSentAccountingWitness ==
    /\ alive
    /\ sender_ = "ok"
    /\ unsent
    /\ ~running_
    /\ sendsReturned >= 1
    /\ sentTotal = sendsReturned + 1


(***************************************************************************)
(* One FIXMessage object used for message after message.                   *)
(***************************************************************************)
RECURSIVE FreshBody(_)
\* the body a newly constructed FIXMessage holds after these addField calls
FreshBody(fields) ==
    IF fields = <<>> THEN <<>>
    ELSE to_string(fields[1][1]) \o <<Ascii("=")>> \o fields[1][2] \o <<SOH>>
            \o FreshBody(Tail(fields))

\* the bytes a newly constructed FIXMessage returns from finalize() after
\* these addField calls
FreshMessage(fields) ==
    LET body == FreshBody(fields)
        summed == <<Ascii("8"), Ascii("=")>> \o beginString_ \o <<SOH>>
                  \o <<Ascii("9"), Ascii("=")>> \o to_string(Len(body)) \o <<SOH>>
                  \o body
    IN  summed \o <<Ascii("1"), Ascii("0"), Ascii("=")>>
               \o FormatPadded(Accumulate(summed) % CheckSumMod) \o <<SOH>>

\* C38: whatever the object was used for before, the bytes finalize() returns
\* are those a new object with the same beginString returns for the fields
\* added since the last clearBody(): nothing of an earlier message is in
\* them; and a second finalize() with no call in between returns the same
\* bytes again
FIXReuse ==
    /\ [](fix_lastOp = "finalize" => fix_finalMessageBuffer_ = FreshMessage(fix_fields))
    /\ [][ (fix_lastOp = "finalize" /\ fix_lastOp' = "finalize")
           => fix_finalMessageBuffer_' = fix_finalMessageBuffer_ ]_vars
    /\ [][ (fix_lastOp' = "clearBody") => fix_bodyBuffer_' = <<>> ]_vars

\* C38 witness: finalize has replaced an earlier, different message of the
\* object by the message of one field
FIXReuseWitness ==
    /\ fix_lastOp = "finalize"
    /\ fix_overwrote
    /\ Len(fix_fields) = 1
    /\ fix_finalMessageBuffer_ = FreshMessage(fix_fields)

====
